---- MODULE Spec2Model ----
(***************************************************************************)
(* Model of mininest/flatnuts.py: the reflecting sampling path, the contour *)
(* accept/reject step, the step / bisect samplers and the NUTS sampler.     *)
(*                                                                          *)
(* Geometry is exact fixed-point arithmetic in two dimensions: the unit     *)
(* cube is [0,One]^2, a direction has components of magnitude One/2 and One *)
(* per step, and the line parameter t is counted in 1/Sub of a step, so     *)
(* every wall crossing of linear_steps_with_reflection falls on the grid.   *)
(* Coordinates = One/4 mod One/2 never meet a wall at a whole step (the     *)
(* generic case of floating point); coordinates = 0 mod One/2 do.           *)
(*                                                                          *)
(* The likelihood and the region are external: the likelihood is an         *)
(* arbitrary but fixed function of the position, chosen value by value the  *)
(* first time a position is evaluated (like); the region fixes the normal   *)
(* returned by gradient at each position (region).                          *)
(***************************************************************************)
EXTENDS Integers, Sequences, FiniteSets, TLC

VARIABLES
    points,            \* SamplingPath.points: list of <<i, x, v, L>>
    fwd_possible,      \* SamplingPath.fwd_possible
    rwd_possible,      \* SamplingPath.rwd_possible
    ncalls,            \* ContourSamplingPath.ncalls
    nreflections,      \* StepSampler.nreflections
    self_fwd_possible, \* StepSampler.fwd_possible (the sampler's own field)
    self_rwd_possible, \* StepSampler.rwd_possible (the sampler's own field)
    like,              \* the likelihood values fixed so far: set of <<x, L>>
    region,            \* the region of the episode, by its name in Regions
    op,                \* the operation that ran last: its arguments, the two
                       \* flags as it found them, and what it returned
    evals,             \* calls of add_if_above_threshold made by that operation
    bisects,           \* calls of bisect made by that operation
    reflects,          \* contour reflections tried by that operation
    pc,                \* where nuts_step stands: "idle", "explore", "loop", "sample", "done", "raised"
    nuts,              \* the locals of nuts_step
    sample,            \* what sample_chain_point drew last / returned
    stepsampler        \* the fields of the step sampler of stepsampler.py

vars == <<points, fwd_possible, rwd_possible, ncalls, nreflections,
          self_fwd_possible, self_rwd_possible, like, region, op,
          evals, bisects, reflects, pc, nuts, sample, stepsampler>>

-----------------------------------------------------------------------------
(* Bounds and constants *)

\* 1.0 in fixed point: the upper face of the unit cube
One == 8
\* the likelihood threshold of the episode
Lmin == 1
\* the likelihood of a point that was interpolated, never evaluated (None)
NoneL == -1
\* largest |i| a caller passes to expand_to_step
MaxTarget == 2
\* operations are started while fewer likelihood calls than this were made
MaxCalls == 3
\* a path on its own is followed up to this many recorded points
MaxPoints == 3
\* replays of up to this many steps are applied to every start and direction
MaxReplay == 4

RECURSIVE Pow2(_)
Pow2(n) == IF n = 0 THEN 1 ELSE 2 * Pow2(n - 1)

\* nuts_step pre-explores to -10 and +10
PreExplore == 10
\* nuts_step looks for a stuck tree once j > 3
StuckDepth == 3
\* the tree depth j up to which nuts_step is followed
MaxDepth == 4
\* the longest replay asked of linear_steps_with_reflection
MaxSteps == PreExplore + MaxTarget + Pow2(MaxDepth)

Sub == One
Axes == {1, 2}
Coords == 0 .. One
Pos == Coords \X Coords
Lvals == {Lmin - 1, Lmin, Lmin + 1}

Abs(a) == IF a < 0 THEN -a ELSE a
SetMin(S) == CHOOSE m \in S : \A n \in S : m <= n
SetMax(S) == CHOOSE m \in S : \A n \in S : m >= n
Neg(v) == [a \in Axes |-> -v[a]]
Times(v, s) == [a \in Axes |-> v[a] * s]
Minus(x, y) == [a \in Axes |-> x[a] - y[a]]

-----------------------------------------------------------------------------
(* Box geometry *)

\* the crossing with one axis reported where several tie
nearest_box_intersection_first_axis(ray_origin, ray_direction, fwd) ==
    LET live == {a \in Axes : ray_direction[a] # 0}
        t2(a) == IF ray_direction[a] > 0
                 THEN ((One - ray_origin[a]) * Sub) \div ray_direction[a]
                 ELSE (ray_origin[a] * Sub) \div (-ray_direction[a])
        t1(a) == IF ray_direction[a] > 0
                 THEN -((ray_origin[a] * Sub) \div ray_direction[a])
                 ELSE -(((One - ray_origin[a]) * Sub) \div (-ray_direction[a]))
        tF == IF fwd THEN SetMin({t2(a) : a \in live})
                     ELSE SetMax({t1(a) : a \in live})
        iF == IF fwd THEN {CHOOSE a \in live : t2(a) = tF}
                     ELSE {CHOOSE a \in live : t1(a) = tF}
        pF == [a \in Axes |-> ray_origin[a] + (ray_direction[a] * tF) \div Sub]
    IN [ok |-> \A a \in Axes : ray_origin[a] >= 0 /\ ray_origin[a] <= One,
        p |-> [a \in Axes |-> IF pF[a] < 0 THEN 0
                              ELSE IF pF[a] > One THEN One ELSE pF[a]],
        t |-> tF,
        i |-> iF]

\* t of one axis in 1/Sub steps; an axis with zero direction gives nan or
\* +-inf in the code and is never the nanmin / nanmax.
nearest_box_intersection_line(ray_origin, ray_direction, fwd) ==
    LET live == {a \in Axes : ray_direction[a] # 0}
        t2(a) == IF ray_direction[a] > 0
                 THEN ((One - ray_origin[a]) * Sub) \div ray_direction[a]
                 ELSE (ray_origin[a] * Sub) \div (-ray_direction[a])
        t1(a) == IF ray_direction[a] > 0
                 THEN -((ray_origin[a] * Sub) \div ray_direction[a])
                 ELSE -(((One - ray_origin[a]) * Sub) \div (-ray_direction[a]))
        tF == IF fwd THEN SetMin({t2(a) : a \in live})
                     ELSE SetMax({t1(a) : a \in live})
        iF == IF fwd THEN {a \in live : t2(a) = tF}
                     ELSE {a \in live : t1(a) = tF}
        pF == [a \in Axes |-> ray_origin[a] + (ray_direction[a] * tF) \div Sub]
    IN [ok |-> \A a \in Axes : ray_origin[a] >= 0 /\ ray_origin[a] <= One,
        p |-> [a \in Axes |-> IF pF[a] < 0 THEN 0
                              ELSE IF pF[a] > One THEN One ELSE pF[a]],
        t |-> tF,
        i |-> iF]

\* the while loop of linear_steps_with_reflection; tleft in 1/Sub steps
RECURSIVE linear_steps_loop(_, _, _)
linear_steps_loop(ray_origin, ray_direction, tleft) ==
    LET n == nearest_box_intersection_line(ray_origin, ray_direction, TRUE)
    IN IF tleft <= n.t
       THEN [x |-> [a \in Axes |-> ray_origin[a] + (tleft * ray_direction[a]) \div Sub],
             v |-> ray_direction]
       ELSE linear_steps_loop(n.p,
                [a \in Axes |-> IF a \in n.i THEN -ray_direction[a]
                                ELSE ray_direction[a]],
                tleft - n.t)

\* the replay for t < 0 that leaves the direction it arrives with turned round
linear_steps_unturned(ray_origin, ray_direction, t) ==
    IF t = 0 THEN [x |-> ray_origin, v |-> ray_direction]
    ELSE IF t < 0
    THEN linear_steps_loop(ray_origin, Neg(ray_direction), (-t) * Sub)
    ELSE linear_steps_loop(ray_origin, ray_direction, t * Sub)

\* t steps straight on, the walls of the cube ignored
linear_steps_without_reflection(ray_origin, ray_direction, t) ==
    [x |-> [a \in Axes |-> ray_origin[a] + t * ray_direction[a]],
     v |-> ray_direction]

RECURSIVE linear_steps_with_reflection(_, _, _)
linear_steps_with_reflection(ray_origin, ray_direction, t) ==
    IF t = 0 THEN [x |-> ray_origin, v |-> ray_direction]
    ELSE IF t < 0
    THEN LET r == linear_steps_with_reflection(ray_origin, Neg(ray_direction), -t)
         IN [x |-> r.x, v |-> Neg(r.v)]
    ELSE linear_steps_loop(ray_origin, ray_direction, t * Sub)

\* the dot product with its sign turned
angle_negated(a, b) == -(a[1] * b[1] + a[2] * b[2])

angle(a, b) == a[1] * b[1] + a[2] * b[2]

\* v moved along the normal by the projection once, not twice
reflect_projected(v, normal) ==
    [a \in Axes |-> v[a] - (angle(normal, v) * normal[a]) \div angle(normal, normal)]

\* reflect(v, normal) for the unit normal n/|n| given by the integer vector n
reflect(v, normal) ==
    [a \in Axes |-> v[a] - (2 * angle(normal, v) * normal[a]) \div angle(normal, normal)]

\* the directions of the model: |v| is the same for all of them
Mags == {One \div 2, One, -(One \div 2), -One}
Dirs == {v \in Mags \X Mags : Abs(v[1]) # Abs(v[2])}
\* the points a path can visit at whole steps
GridPos == {x \in Pos : x[1] % 2 = 0 /\ x[2] % 2 = 0}
\* linear_steps_with_reflection, evaluated once for every argument
StepTable == [x \in GridPos, v \in Dirs, t \in -MaxSteps .. MaxSteps |->
                 linear_steps_with_reflection(x, v, t)]

extrapolate_ahead(di, xj, vj) == StepTable[xj, vj, di]

-----------------------------------------------------------------------------
(* SamplingPath *)

PointSet(pts) == {pts[n] : n \in 1 .. Len(pts)}

\* max(list) / min(list) of Python over the tuples (i, x, v, L): the scan
\* keeps the first item and compares each later item with the one kept.
\* Tuples compare by their index first; two tuples of one index go on to
\* compare their x arrays, and the truth value of that comparison raises
\* ValueError.  n is the position scanned next, best the item kept.
RECURSIVE tuple_scan(_, _, _, _)
tuple_scan(pts, n, best, up) ==
    IF n > Len(pts) THEN [err |-> "", p |-> best]
    ELSE IF pts[n][1] = best[1] THEN [err |-> "ValueError", p |-> best]
    ELSE tuple_scan(pts, n + 1,
                    IF (up /\ pts[n][1] > best[1]) \/ (~up /\ pts[n][1] < best[1])
                    THEN pts[n] ELSE best,
                    up)

tuple_max(pts) == tuple_scan(pts, 2, pts[1], TRUE)
tuple_min(pts) == tuple_scan(pts, 2, pts[1], FALSE)

\* max(self.points) / min(self.points)
max_point(pts) == tuple_max(pts).p
min_point(pts) == tuple_min(pts).p

add(pts, i, x0, v0, L0) == Append(pts, <<i, x0, v0, L0>>)

\* extrapolate without its two assertions on deltai
extrapolate_from_unchecked(i, m) ==
    LET e == extrapolate_ahead(i - m.p[1], m.p[2], m.p[3])
    IN [ok |-> m.err = "", err |-> m.err, x |-> e.x, v |-> e.v]

\* err names the exception raised, "" when extrapolate returns; ok = no
\* exception
extrapolate_from(i, m) ==
    LET deltai == i - m.p[1]
        e == extrapolate_ahead(deltai, m.p[2], m.p[3])
        fails == IF i >= 0 THEN ~(deltai > 0) ELSE ~(deltai < 0)
        err == IF m.err # "" THEN m.err
               ELSE IF fails THEN "AssertionError" ELSE ""
    IN [ok |-> err = "", err |-> err, x |-> e.x, v |-> e.v]

extrapolate(pts, i) ==
    extrapolate_from(i, IF i >= 0 THEN tuple_max(pts) ELSE tuple_min(pts))

\* the points after i without i itself
points_after_strict(pts, i) == SelectSeq(pts, LAMBDA p : p[1] > i)

points_before_of(pts, i) == SelectSeq(pts, LAMBDA p : p[1] <= i)
points_after_of(pts, i) == SelectSeq(pts, LAMBDA p : p[1] >= i)

\* an empty side taken for closed whatever its flag says
cannot_continue_unflagged(side, possible) == Len(side) = 0

\* "the path cannot continue, and i does not exist": no point on that side
\* and the side is closed
cannot_continue(side, possible) == Len(side) = 0 /\ ~possible

Raised(name) ==
    [err |-> name, x |-> <<0, 0>>, v |-> <<0, 0>>, L |-> NoneL, on_path |-> FALSE]

\* j....i....k: the two replays must agree; xl1, the stored vj and None are
\* returned
interpolate_between(hi, one, two) ==
    IF one.x # two.x \/ one.v # two.v
    THEN [err |-> "AssertionError", x |-> one.x, v |-> hi[3], L |-> NoneL,
          on_path |-> FALSE]
    ELSE [err |-> "", x |-> one.x, v |-> hi[3], L |-> NoneL, on_path |-> TRUE]

\* return xj, vj, Lj, False of the extreme point m of the other side
interpolate_clamped(m) ==
    IF m.err # "" THEN Raised(m.err)
    ELSE [err |-> "", x |-> m.p[2], v |-> m.p[3], L |-> m.p[4], on_path |-> FALSE]

\* from j, ... = max(points_before); k, ... = min(points_after) on
interpolate_inside(i, mj, mk) ==
    IF mj.err # "" THEN Raised(mj.err)
    ELSE IF mk.err # "" THEN Raised(mk.err)
    ELSE IF mj.p[1] = i
    THEN [err |-> "", x |-> mj.p[2], v |-> mj.p[3], L |-> mj.p[4], on_path |-> TRUE]
    ELSE interpolate_between(mj.p,
             extrapolate_ahead(i - mj.p[1], mj.p[2], mj.p[3]),
             extrapolate_ahead(i - mk.p[1], mk.p[2], mk.p[3]))

interpolate_of(w, i, points_before, points_after) ==
    IF cannot_continue(points_after, w.fwd_possible)
    THEN interpolate_clamped(tuple_max(points_before))
    ELSE IF cannot_continue(points_before, w.rwd_possible)
    THEN interpolate_clamped(tuple_min(points_after))
    ELSE IF Len(points_before) = 0 \/ Len(points_after) = 0
    THEN Raised("KeyError")
    ELSE interpolate_inside(i, tuple_max(points_before), tuple_min(points_after))

\* err names the exception raised, "" when interpolate returns
interpolate(w, i) ==
    interpolate_of(w, i, points_before_of(w.points, i), points_after_of(w.points, i))

-----------------------------------------------------------------------------
(* ContourSamplingPath.  An operation works on a record w of the fields it  *)
(* reads and writes and yields the set of its possible outcomes: one per    *)
(* choice of the likelihood values that were not fixed before.              *)

\* self.likelihood(self.transform(x)): the value fixed for x, or any value
likelihood(w, x) ==
    IF \E e \in w.like : e[1] = x THEN {e[2] : e \in {f \in w.like : f[1] = x}}
    ELSE Lvals

add_if_above_threshold_always(w, i, x, v) ==
    { [w |-> [w EXCEPT !.like = @ \cup {<<x, L>>},
                       !.ncalls = @ + 1,
                       !.points = add(@, i, x, v, L),
                       !.evals = Append(@, [i |-> i, x |-> x, v |-> v, L |-> L,
                                            accepted |-> TRUE])],
       accepted |-> TRUE] : L \in likelihood(w, x) }

add_if_above_threshold_nocount(w, i, x, v) ==
    { LET w1 == [w EXCEPT !.like = @ \cup {<<x, L>>},
                          !.evals = Append(@, [i |-> i, x |-> x, v |-> v, L |-> L,
                                               accepted |-> L > Lmin])]
      IN IF L > Lmin
         THEN [w |-> [w1 EXCEPT !.points = add(@, i, x, v, L)], accepted |-> TRUE]
         ELSE [w |-> w1, accepted |-> FALSE]
      : L \in likelihood(w, x) }

add_if_above_threshold(w, i, x, v) ==
    { LET w1 == [w EXCEPT !.like = @ \cup {<<x, L>>},
                          !.ncalls = @ + 1,
                          !.evals = Append(@, [i |-> i, x |-> x, v |-> v, L |-> L,
                                               accepted |-> L > Lmin])]
      IN IF L > Lmin
         THEN [w |-> [w1 EXCEPT !.points = add(@, i, x, v, L)], accepted |-> TRUE]
         ELSE [w |-> w1, accepted |-> FALSE]
      : L \in likelihood(w, x) }

\* the regions of the model, each by the normal its live points give at a
\* point: one normal everywhere, or a normal that changes across the cube
Regions == {"wall", "diagonal", "mixed"}
normal_of(r, x) ==
    IF r = "wall" THEN <<1, 0>>
    ELSE IF r = "diagonal" THEN <<1, 1>>
    ELSE IF x[1] + x[2] <= One THEN <<1, 1>> ELSE <<1, 0>>

\* the normal turned to face the direction of travel
gradient_facing(reflpoint, v) ==
    IF angle(normal_of(region, reflpoint), v) > 0
    THEN Neg(normal_of(region, reflpoint)) ELSE normal_of(region, reflpoint)

\* the unit normal at reflpoint, as an integer vector n standing for n/|n|;
\* it depends on the region and the point, not on v
gradient(reflpoint, v) == normal_of(region, reflpoint)

-----------------------------------------------------------------------------
(* StepSampler *)

reverse(reflpoint, v) ==
    LET normal == gradient(reflpoint, v)
    IN [a \in Axes |-> v[a] - (2 * angle(normal, v) * normal[a]) \div angle(normal, normal)]

close_side_both(w, fwd) ==
    [w EXCEPT !.fwd_possible = FALSE, !.rwd_possible = FALSE]

close_side_none(w, fwd) == w

\* self.contourpath.samplingpath.fwd_possible = False / rwd_possible = False
close_side(w, fwd) ==
    IF fwd THEN [w EXCEPT !.fwd_possible = FALSE]
    ELSE [w EXCEPT !.rwd_possible = FALSE]

\* vk = self.reverse(xj, v * sign) * sign; xk, vk = extrapolate_ahead(sign, xj, vk)
reflected_step(xj, v, sign) ==
    extrapolate_ahead(sign, xj, Times(reverse(xj, Times(v, sign)), sign))

\* expand_onestep once the straight candidate e of index j was rejected in a;
\* k is the reflected candidate
expand_onestep_reflect(a, fwd, j, k) ==
    { IF b.accepted THEN [w |-> b.w, ret |-> "True"]
      ELSE [w |-> close_side(b.w, fwd), ret |-> "False"]
      : b \in add_if_above_threshold([a.w EXCEPT !.nreflections = @ + 1], j, k.x, k.v) }

\* expand_onestep from the straight candidate e of index j on
expand_onestep_from(w, fwd, sign, j, e) ==
    UNION { IF a.accepted THEN {[w |-> a.w, ret |-> "True"]}
            ELSE expand_onestep_reflect(a, fwd, j, reflected_step(e.x, e.v, sign))
            : a \in add_if_above_threshold(w, j, e.x, e.v) }

\* a step that evaluates the index of the end point itself
expand_onestep_in_place(w, fwd) ==
    LET start == IF fwd THEN max_point(w.points) ELSE min_point(w.points)
        sign == IF fwd THEN 1 ELSE -1
    IN expand_onestep_from(w, fwd, sign, start[1],
                           extrapolate_ahead(0, start[2], start[3]))

expand_onestep(w, fwd) ==
    LET start == IF fwd THEN max_point(w.points) ELSE min_point(w.points)
        sign == IF fwd THEN 1 ELSE -1
        j == start[1] + 1 * sign
    IN expand_onestep_from(w, fwd, sign, j, extrapolate(w.points, j))

\* for j in range(...): if not self.expand_onestep(...): break
RECURSIVE expand_loop(_, _, _)
expand_loop(w, n, fwd) ==
    IF n <= 0 THEN {w}
    ELSE UNION { IF o.ret = "True" THEN expand_loop(o.w, n - 1, fwd) ELSE {o.w}
                 : o \in expand_onestep(w, fwd) }

StepSampler_expand_to_step(w, i) ==
    IF i > 0 /\ self_fwd_possible
    THEN expand_loop(w, i - max_point(w.points)[1], TRUE)
    ELSE IF self_rwd_possible
    THEN expand_loop(w, min_point(w.points)[1] - i, FALSE)
    ELSE {w}

-----------------------------------------------------------------------------
(* BisectSampler *)

RECURSIVE bisect_loop(_, _, _, _, _, _)
bisect_loop(w, left, leftx, leftv, right, offseti) ==
    LET mid == (right + left) \div 2
        m == extrapolate_ahead(mid, leftx, leftv)
    IN IF mid = left \/ mid = right THEN {[w |-> w, ret |-> right]}
       ELSE UNION { IF a.accepted
                    THEN bisect_loop(a.w, mid, leftx, leftv, right, offseti)
                    ELSE bisect_loop(a.w, left, leftx, leftv, mid, offseti)
                    : a \in add_if_above_threshold(w, mid + offseti, m.x, m.v) }

bisect_none(w, left, leftx, leftv, right, offseti) ==
    { [w |-> [w EXCEPT !.bisects = Append(@, [starti |-> offseti, startx |-> leftx,
                                              startv |-> leftv, deltai |-> right,
                                              outsidei |-> right])],
       ret |-> right] }

bisect(w, left, leftx, leftv, right, offseti) ==
    { [w |-> [o.w EXCEPT !.bisects = Append(@, [starti |-> offseti, startx |-> leftx,
                                                startv |-> leftv, deltai |-> right,
                                                outsidei |-> o.ret])],
       ret |-> o.ret]
      : o \in bisect_loop(w, left, leftx, leftv, right, offseti) }

continue_always(continue_after_reflection, vk, startv) == TRUE

continue_forward_only(continue_after_reflection, vk, startv) ==
    continue_after_reflection /\ angle(vk, startv) > 0

\* if continue_after_reflection or angle(vk, startv) > 0

continue_expansion(continue_after_reflection, vk, startv) ==
    continue_after_reflection \/ angle(vk, startv) > 0

RECURSIVE BisectSampler_expand_to_step(_, _, _)

\* expand_to_step after the reflected retry c at index outsidei + starti;
\* startv is the direction at the reflection point, vk the reflected one
after_retry(c, i, continue_after_reflection, fwd, index, startv, vk) ==
    LET w3 == [c.w EXCEPT !.reflects = Append(@,
                  [i |-> index, fwd |-> fwd, accepted |-> c.accepted,
                   forced |-> continue_after_reflection,
                   dot |-> angle(vk, startv),
                   at |-> Len(c.w.evals)])]
    IN IF c.accepted
       THEN IF continue_expansion(continue_after_reflection, vk, startv)
            THEN { [w |-> r.w, ret |-> "None"]
                   : r \in BisectSampler_expand_to_step(w3, i, TRUE) }
            ELSE {[w |-> w3, ret |-> "None"]}
       ELSE {[w |-> close_side(w3, fwd), ret |-> "False"]}

\* expand_to_step from the reflection point j of index outsidei + starti on;
\* k is the reflected candidate
reflect_at(w, i, continue_after_reflection, fwd, index, j, k) ==
    UNION { after_retry(c, i, continue_after_reflection, fwd, index, j.v, k.v)
            : c \in add_if_above_threshold([w EXCEPT !.nreflections = @ + 2],
                                           index, k.x, k.v) }

\* expand_to_step once index i was rejected and bisect returned outsidei
after_bisect(w, i, continue_after_reflection, fwd, sign, start, outsidei, j) ==
    reflect_at(w, i, continue_after_reflection, fwd, outsidei + start[1], j,
               reflected_step(j.x, j.v, sign))

\* expand_to_step from the jump-ahead candidate e of index i on
expand_from(w, i, continue_after_reflection, fwd, sign, start, e) ==
    UNION {
      IF a.accepted THEN {[w |-> a.w, ret |-> "None"]}
      ELSE UNION {
             after_bisect(b.w, i, continue_after_reflection, fwd, sign, start, b.ret,
                          extrapolate_ahead(b.ret, start[2], start[3]))
             : b \in bisect(a.w, 0, start[2], start[3], i - start[1], start[1]) }
      : a \in add_if_above_threshold(w, i, e.x, e.v) }

BisectSampler_expand_to_step(w, i, continue_after_reflection) ==
    LET fwd == i > 0
        sign == IF fwd THEN 1 ELSE -1
        start == IF fwd THEN max_point(w.points) ELSE min_point(w.points)
        starti == start[1]
    IN IF (fwd /\ starti >= i) \/ (~fwd /\ starti <= i)
       THEN {[w |-> w, ret |-> "None"]}       \* already done
       ELSE IF (fwd /\ ~w.fwd_possible) \/ (~fwd /\ ~w.rwd_possible)
       THEN {[w |-> w, ret |-> "None"]}       \* stuck
       ELSE expand_from(w, i, continue_after_reflection, fwd, sign, start,
                        extrapolate(w.points, i))

-----------------------------------------------------------------------------
(* NUTSSampler *)

\* a state is <<i, x, v>>; err is the exception a path lookup raised;
\* lookups lists the indices build_tree passed to interpolate, in order
RECURSIVE build_tree(_, _, _, _)

\* base case: (i, xi, vi), (i, xi, vi), (i,i), False
build_tree_leaf(i, p) ==
    [err |-> p.err, left |-> <<i, p.x, p.v>>, right |-> <<i, p.x, p.v>>,
     range |-> <<i, i>>, stop |-> FALSE, lookups |-> <<i>>]

\* the two subtrees put together with the check made on the end points where
\* they adjoin as well
build_tree_join_inner(a, b, rwd) ==
    LET left == IF rwd THEN b.left ELSE a.left
        right == IF rwd THEN a.right ELSE b.right
        il == IF rwd THEN b.right ELSE a.right
        ir == IF rwd THEN a.left ELSE b.left
        d == Minus(right[2], left[2])
        e == Minus(ir[2], il[2])
    IN IF b.err # "" THEN [b EXCEPT !.lookups = a.lookups \o @]
       ELSE [err |-> "", left |-> left, right |-> right,
             range |-> <<left[1], right[1]>>,
             lookups |-> a.lookups \o b.lookups,
             stop |-> \/ a.stop
                      \/ b.stop
                      \/ angle(d, left[3]) <= 0
                      \/ angle(d, right[3]) <= 0
                      \/ angle(left[3], right[3]) <= 0
                      \/ angle(e, il[3]) <= 0
                      \/ angle(e, ir[3]) <= 0
                      \/ angle(il[3], ir[3]) <= 0]

\* the two subtrees put together with the range of the second one returned
build_tree_join_second_range(a, b, rwd) ==
    LET left == IF rwd THEN b.left ELSE a.left
        right == IF rwd THEN a.right ELSE b.right
        d == Minus(right[2], left[2])
    IN IF b.err # "" THEN [b EXCEPT !.lookups = a.lookups \o @]
       ELSE [err |-> "", left |-> left, right |-> right,
             range |-> b.range,
             lookups |-> a.lookups \o b.lookups,
             stop |-> \/ a.stop
                      \/ b.stop
                      \/ angle(d, left[3]) <= 0
                      \/ angle(d, right[3]) <= 0
                      \/ angle(left[3], right[3]) <= 0]

\* the two subtrees put together, stopping only when the end points lie
\* strictly against the directions
build_tree_join_strict(a, b, rwd) ==
    LET left == IF rwd THEN b.left ELSE a.left
        right == IF rwd THEN a.right ELSE b.right
        d == Minus(right[2], left[2])
    IN IF b.err # "" THEN [b EXCEPT !.lookups = a.lookups \o @]
       ELSE [err |-> "", left |-> left, right |-> right,
             range |-> <<left[1], right[1]>>,
             lookups |-> a.lookups \o b.lookups,
             stop |-> \/ a.stop
                      \/ b.stop
                      \/ angle(d, left[3]) < 0
                      \/ angle(d, right[3]) < 0
                      \/ angle(left[3], right[3]) <= 0]

\* the two subtrees a and b put together
build_tree_join(a, b, rwd) ==
    LET left == IF rwd THEN b.left ELSE a.left
        right == IF rwd THEN a.right ELSE b.right
        d == Minus(right[2], left[2])
    IN IF b.err # "" THEN [b EXCEPT !.lookups = a.lookups \o @]
       ELSE [err |-> "", left |-> left, right |-> right,
             range |-> <<left[1], right[1]>>,
             lookups |-> a.lookups \o b.lookups,
             stop |-> \/ a.stop
                      \/ b.stop
                      \/ angle(d, left[3]) <= 0
                      \/ angle(d, right[3]) <= 0
                      \/ angle(left[3], right[3]) <= 0]

\* the second subtree built whether or not the first signalled stop
build_tree_second_always(w, a, j, rwd) ==
    IF a.err # "" THEN a
    ELSE build_tree_join(a, build_tree(w, IF rwd THEN a.left ELSE a.right, j - 1, rwd),
                         rwd)

\* build_tree after its first subtree a
build_tree_second(w, a, j, rwd) ==
    IF a.err # "" THEN a
    ELSE IF a.stop
    THEN [a EXCEPT !.range = <<a.left[1], a.right[1]>>]
    ELSE build_tree_join(a, build_tree(w, IF rwd THEN a.left ELSE a.right, j - 1, rwd),
                         rwd)

build_tree(w, startstate, j, rwd) ==
    IF j = 0
    THEN build_tree_leaf(startstate[1] + (IF rwd THEN -1 ELSE 1),
                         interpolate(w, startstate[1] + (IF rwd THEN -1 ELSE 1)))
    ELSE build_tree_second(w, build_tree(w, startstate, j - 1, rwd), j, rwd)

Min2(a, b) == IF a < b THEN a ELSE b
Max2(a, b) == IF a > b THEN a ELSE b

\* if not onpath: continue / return xi, Li, for the point p of the drawn i
sample_chain_point_any_of(i, p) ==
    [err |-> p.err, returned |-> p.err = "",
     sample |-> [i |-> i, x |-> p.x, L |-> p.L, on_path |-> p.on_path]]

sample_chain_point_of(i, p) ==
    [err |-> p.err, returned |-> p.err = "" /\ p.on_path,
     sample |-> [i |-> i, x |-> p.x, L |-> p.L, on_path |-> p.on_path]]

\* while True: i = randint(a, b+1); ...: one pass, for one outcome i of the draw
sample_chain_point(w, i) == sample_chain_point_of(i, interpolate(w, i))

\* the loop body widening the valid range by the range of every tree
nuts_update_widen_always(w, n, rwd, t) ==
    LET left_state == IF rwd THEN t.left ELSE n.left_state
        right_state == IF rwd THEN n.right_state ELSE t.right
        validrange == <<Min2(n.validrange[1], t.range[1]),
                        Max2(n.validrange[2], t.range[2])>>
        d == Minus(right_state[2], left_state[2])
        stop == \/ t.stop
                \/ angle(d, left_state[3]) <= 0
                \/ angle(d, right_state[3]) <= 0
        j == n.j + 1
        stuck == /\ j > StuckDepth
                 /\ validrange[1] < min_point(w.points)[1]
                 /\ validrange[2] > max_point(w.points)[1]
    IN IF t.err # ""
       THEN [w |-> w, err |-> t.err, nuts |-> n, exit |-> TRUE, tree |-> t]
       ELSE [w |-> w, err |-> "", tree |-> t,
             nuts |-> [left_state |-> left_state, right_state |-> right_state,
                       j |-> j, validrange |-> validrange, stop |-> stop],
             exit |-> stop \/ stuck]

\* one pass of the while loop of nuts_step after expand_to_step, with the
\* tree t that build_tree returned
\* the loop body with a likelihood call counted for every index build_tree
\* looked up
nuts_update_counting_lookups(w, n, rwd, t) ==
    LET left_state == IF rwd THEN t.left ELSE n.left_state
        right_state == IF rwd THEN n.right_state ELSE t.right
        validrange == IF ~t.stop
                      THEN <<Min2(n.validrange[1], t.range[1]),
                             Max2(n.validrange[2], t.range[2])>>
                      ELSE n.validrange
        d == Minus(right_state[2], left_state[2])
        stop == \/ t.stop
                \/ angle(d, left_state[3]) <= 0
                \/ angle(d, right_state[3]) <= 0
        j == n.j + 1
        stuck == /\ j > StuckDepth
                 /\ validrange[1] < min_point(w.points)[1]
                 /\ validrange[2] > max_point(w.points)[1]
        counted == [w EXCEPT !.ncalls = @ + Len(t.lookups)]
    IN IF t.err # ""
       THEN [w |-> counted, err |-> t.err, nuts |-> n, exit |-> TRUE, tree |-> t]
       ELSE [w |-> counted, err |-> "", tree |-> t,
             nuts |-> [left_state |-> left_state, right_state |-> right_state,
                       j |-> j, validrange |-> validrange, stop |-> stop],
             exit |-> stop \/ stuck]

nuts_update(w, n, rwd, t) ==
    LET left_state == IF rwd THEN t.left ELSE n.left_state
        right_state == IF rwd THEN n.right_state ELSE t.right
        validrange == IF ~t.stop
                      THEN <<Min2(n.validrange[1], t.range[1]),
                             Max2(n.validrange[2], t.range[2])>>
                      ELSE n.validrange
        d == Minus(right_state[2], left_state[2])
        stop == \/ t.stop
                \/ angle(d, left_state[3]) <= 0
                \/ angle(d, right_state[3]) <= 0
        j == n.j + 1
        stuck == /\ j > StuckDepth
                 /\ validrange[1] < min_point(w.points)[1]
                 /\ validrange[2] > max_point(w.points)[1]
    IN IF t.err # ""
       THEN [w |-> w, err |-> t.err, nuts |-> n, exit |-> TRUE, tree |-> t]
       ELSE [w |-> w, err |-> "", tree |-> t,
             nuts |-> [left_state |-> left_state, right_state |-> right_state,
                       j |-> j, validrange |-> validrange, stop |-> stop],
             exit |-> stop \/ stuck]

\* one pass of the while loop of nuts_step, for one outcome of the coin
nuts_iteration(w, n, rwd) ==
    { nuts_update(e.w, n, rwd,
                  build_tree(e.w, IF rwd THEN n.left_state ELSE n.right_state, n.j, rwd))
      : e \in BisectSampler_expand_to_step(w,
                 IF rwd THEN n.left_state[1] - Pow2(n.j)
                        ELSE n.right_state[1] + Pow2(n.j), TRUE) }

-----------------------------------------------------------------------------
(* The episode *)

Slow == One \div 2
Fast == One
\* start points lie strictly inside the cube (a live point)
StartPoints == {<<One \div 4, One \div 4>>, <<One \div 2, One \div 4>>}
StartDirections == {<<Slow, Fast>>, <<Fast, -Slow>>}
Targets == (-MaxTarget .. MaxTarget) \ {0}

World == [points |-> points, fwd_possible |-> fwd_possible,
          rwd_possible |-> rwd_possible, ncalls |-> ncalls,
          nreflections |-> nreflections, like |-> like,
          evals |-> <<>>, bisects |-> <<>>, reflects |-> <<>>]

Commit(w) ==
    /\ points' = w.points
    /\ fwd_possible' = w.fwd_possible
    /\ rwd_possible' = w.rwd_possible
    /\ ncalls' = w.ncalls
    /\ nreflections' = w.nreflections
    /\ like' = w.like
    /\ evals' = w.evals
    /\ bisects' = w.bisects
    /\ reflects' = w.reflects
    /\ UNCHANGED <<self_fwd_possible, self_rwd_possible, region, stepsampler>>

\* no tree was built: the pre-exploration of nuts_step
NoTree == [err |-> "", left |-> <<0, <<0, 0>>, <<0, 0>>>>,
           right |-> <<0, <<0, 0>>, <<0, 0>>>>, range |-> <<0, 0>>,
           stop |-> FALSE, lookups |-> <<>>]
NoSample == [i |-> 0, x |-> <<0, 0>>, L |-> NoneL, on_path |-> FALSE]
\* self.last = None, None
NoLast == [u |-> <<>>, L |-> NoneL]
\* no step sampler was constructed
NoStepSampler == [nsteps |-> 0, history |-> <<>>, last |-> NoLast,
                  nrejects |-> 0, scale |-> <<0, 0>>]
state0 == <<points[1][1], points[1][2], points[1][3]>>

\* SamplingPath(x0, v0, L0), ContourSamplingPath(...), the sampler's __init__.
\* The start is a live point of the run: inside the cube, at or above Lmin.
Init ==
    /\ \E x0 \in StartPoints, v0 \in StartDirections, L0 \in {L \in Lvals : L >= Lmin} :
          /\ points = add(<<>>, 0, x0, v0, L0)
          /\ like = {<<x0, L0>>}
    /\ fwd_possible = TRUE
    /\ rwd_possible = TRUE
    /\ ncalls = 0
    /\ nreflections = 0
    /\ self_fwd_possible = TRUE
    /\ self_rwd_possible = TRUE
    /\ region \in Regions
    /\ op = [name |-> "init", i |-> 0, fwd |-> TRUE, cont |-> TRUE, was_fwd |-> TRUE,
             was_rwd |-> TRUE, ret |-> "None"]
    /\ evals = <<>>
    /\ bisects = <<>>
    /\ reflects = <<>>
    /\ pc = "idle"
    /\ nuts = [left_state |-> state0, right_state |-> state0, j |-> 0,
               validrange |-> <<0, 0>>, stop |-> FALSE]
    /\ sample = NoSample
    /\ stepsampler = NoStepSampler

ExpandOnestep ==
    /\ pc = "idle"
    /\ ncalls < MaxCalls
    /\ \E fwd \in BOOLEAN : \E o \in expand_onestep(World, fwd) :
          /\ Commit(o.w)
          /\ op' = [name |-> "expand_onestep", i |-> 0, fwd |-> fwd, cont |-> TRUE,
                    was_fwd |-> fwd_possible, was_rwd |-> rwd_possible, ret |-> o.ret]
    /\ UNCHANGED <<pc, nuts, sample>>

StepExpandToStep ==
    /\ pc = "idle"
    /\ ncalls < MaxCalls
    /\ \E i \in Targets : \E w \in StepSampler_expand_to_step(World, i) :
          /\ Commit(w)
          /\ op' = [name |-> "step_expand", i |-> i, fwd |-> i > 0, cont |-> TRUE,
                    was_fwd |-> fwd_possible, was_rwd |-> rwd_possible, ret |-> "None"]
    /\ UNCHANGED <<pc, nuts, sample>>

BisectExpandToStep ==
    /\ pc = "idle"
    /\ ncalls < MaxCalls
    /\ \E i \in Targets, c \in BOOLEAN :
       \E o \in BisectSampler_expand_to_step(World, i, c) :
          /\ Commit(o.w)
          /\ op' = [name |-> "bisect_expand", i |-> i, fwd |-> i > 0, cont |-> c,
                    was_fwd |-> fwd_possible, was_rwd |-> rwd_possible, ret |-> o.ret]
    /\ UNCHANGED <<pc, nuts, sample>>

\* nuts_step, called on a fresh sampler (self.points[0] is the start), up to
\* the first pre-exploration, expand_to_step(-10)
NutsBegin ==
    /\ pc = "idle"
    /\ op.name = "init"
    /\ \E o \in BisectSampler_expand_to_step(World, -PreExplore, FALSE) :
          /\ Commit(o.w)
          /\ op' = [name |-> "nuts_step", i |-> -PreExplore, fwd |-> FALSE,
                    cont |-> FALSE, was_fwd |-> fwd_possible,
                    was_rwd |-> rwd_possible, ret |-> o.ret, j |-> -1,
                    tree |-> NoTree]
    /\ pc' = "explore"
    /\ nuts' = [left_state |-> state0, right_state |-> state0, j |-> 0,
                validrange |-> <<0, 0>>, stop |-> FALSE]
    /\ UNCHANGED sample

\* the second pre-exploration, expand_to_step(+10)
NutsPreExplore ==
    /\ pc = "explore"
    /\ \E o \in BisectSampler_expand_to_step(World, PreExplore, FALSE) :
          /\ Commit(o.w)
          /\ op' = [name |-> "nuts_step", i |-> PreExplore, fwd |-> TRUE,
                    cont |-> FALSE, was_fwd |-> fwd_possible,
                    was_rwd |-> rwd_possible, ret |-> o.ret, j |-> -1,
                    tree |-> NoTree]
    /\ pc' = "loop"
    /\ UNCHANGED <<nuts, sample>>

NutsIteration ==
    /\ pc = "loop"
    /\ nuts.j < MaxDepth
    /\ \E rwd \in BOOLEAN : \E o \in nuts_iteration(World, nuts, rwd) :
          /\ Commit(o.w)
          /\ nuts' = o.nuts
          /\ pc' = IF o.err # "" THEN "raised" ELSE IF o.exit THEN "sample" ELSE "loop"
          /\ op' = [name |-> "nuts_step",
                    i |-> IF rwd THEN nuts.left_state[1] - Pow2(nuts.j)
                                 ELSE nuts.right_state[1] + Pow2(nuts.j),
                    fwd |-> ~rwd, cont |-> TRUE, was_fwd |-> fwd_possible,
                    was_rwd |-> rwd_possible, ret |-> o.err, j |-> nuts.j,
                    tree |-> o.tree]
    /\ UNCHANGED sample

\* one pass of the while loop of sample_chain_point(validrange)
SampleChainPoint(i) ==
    /\ pc = "sample"
    /\ i \in nuts.validrange[1] .. nuts.validrange[2]
    /\ LET o == sample_chain_point(World, i)
       IN /\ sample' = o.sample
          /\ pc' = IF o.err # "" THEN "raised" ELSE IF o.returned THEN "done" ELSE "sample"
          /\ op' = [name |-> "sample_chain_point", i |-> i, fwd |-> TRUE, cont |-> TRUE,
                    was_fwd |-> fwd_possible, was_rwd |-> rwd_possible, ret |-> o.err]
    /\ evals' = <<>>
    /\ bisects' = <<>>
    /\ reflects' = <<>>
    /\ UNCHANGED <<points, fwd_possible, rwd_possible, ncalls, nreflections,
                   self_fwd_possible, self_rwd_possible, like, region, nuts,
                   stepsampler>>

Indices == -(PreExplore + Pow2(MaxDepth + 1)) .. (PreExplore + Pow2(MaxDepth + 1))

Next ==
    \/ ExpandOnestep
    \/ StepExpandToStep
    \/ BisectExpandToStep
    \/ NutsBegin
    \/ NutsPreExplore
    \/ NutsIteration
    \/ \E i \in Indices : SampleChainPoint(i)

Spec == Init /\ [][Next]_vars

-----------------------------------------------------------------------------
(* The SamplingPath on its own: a caller records points, closes sides and   *)
(* looks indices up.  The points recorded lie on the trajectory of the      *)
(* start point, as the points a sampler records do.                         *)

PathInit ==
    /\ Init
    /\ region = "wall"
    /\ points[1][3] = <<Slow, Fast>>
    /\ points[1][4] = Lmin

LookupIndices == -(MaxTarget + 1) .. (MaxTarget + 1)
PathIndices(pts) == {pts[n][1] : n \in 1 .. Len(pts)}

PathUnchanged ==
    UNCHANGED <<ncalls, nreflections, self_fwd_possible, self_rwd_possible, like,
                region, evals, bisects, reflects, pc, nuts, sample, stepsampler>>

Record(i, L) ==
    /\ Len(points) < MaxPoints
    /\ LET e == extrapolate_ahead(i, points[1][2], points[1][3])
       IN points' = add(points, i, e.x, e.v, L)
    /\ op' = [name |-> "add", i |-> i, ret |-> "None"]
    /\ UNCHANGED <<fwd_possible, rwd_possible>>
    /\ PathUnchanged

\* add(i, x, v, L) at an index that holds no point yet
PathAdd(i) ==
    /\ i \notin PathIndices(points)
    /\ \E L \in {Lmin, Lmin + 1} : Record(i, L)

\* add(i, x, v, L) at an index that holds a point already
PathAddAgain(i) ==
    /\ i \in PathIndices(points)
    /\ \E L \in {Lmin, Lmin + 1} : Record(i, L)

\* self.path.fwd_possible = False / self.path.rwd_possible = False
PathClose(fwd) ==
    /\ IF fwd THEN fwd_possible /\ fwd_possible' = FALSE /\ UNCHANGED rwd_possible
              ELSE rwd_possible /\ rwd_possible' = FALSE /\ UNCHANGED fwd_possible
    /\ op' = [name |-> "close", i |-> 0, fwd |-> fwd, ret |-> "None"]
    /\ UNCHANGED points
    /\ PathUnchanged

PathInterpolate(i) ==
    /\ op' = [name |-> "interpolate", i |-> i, ret |-> interpolate(World, i)]
    /\ UNCHANGED <<points, fwd_possible, rwd_possible>>
    /\ PathUnchanged

PathExtrapolate(i) ==
    /\ op' = [name |-> "extrapolate", i |-> i, ret |-> extrapolate(points, i)]
    /\ UNCHANGED <<points, fwd_possible, rwd_possible>>
    /\ PathUnchanged

PathNext ==
    \/ \E i \in Targets : PathAdd(i)
    \/ \E fwd \in BOOLEAN : PathClose(fwd)
    \/ \E i \in LookupIndices : PathInterpolate(i)
    \/ \E i \in LookupIndices : PathExtrapolate(i)

\* every index is recorded at most once, as the samplers record
SpecPath == PathInit /\ [][PathNext]_vars

RecordNext ==
    \/ PathNext
    \/ \E i \in Targets \cup {0} : PathAddAgain(i)

\* a caller may record an index again
SpecRecord == PathInit /\ [][RecordNext]_vars

-----------------------------------------------------------------------------
(* The functions of the geometry on their own: a behaviour is one call; the *)
(* action applies the function to arguments drawn from the grid and keeps   *)
(* the call in op.                                                          *)

\* directions along an axis and along a diagonal besides those of Dirs
GeomDirs == (({0} \cup Mags) \X ({0} \cup Mags)) \ {<<0, 0>>}
\* unit normals n/|n| along an axis or a diagonal
Normals == ({-1, 0, 1} \X {-1, 0, 1}) \ {<<0, 0>>}

GeomInit ==
    /\ Init
    /\ points[1] = <<0, <<One \div 4, One \div 4>>, <<Slow, Fast>>, Lmin>>

GeomUnchanged ==
    UNCHANGED <<points, fwd_possible, rwd_possible, ncalls, nreflections,
                self_fwd_possible, self_rwd_possible, like, region, evals,
                bisects, reflects, pc, nuts, sample, stepsampler>>

GeomIntersect ==
    /\ op.name = "init"
    /\ \E o \in GridPos, d \in GeomDirs, fwd \in BOOLEAN :
          op' = [name |-> "nearest_box_intersection_line", x |-> o, v |-> d,
                 fwd |-> fwd, ret |-> nearest_box_intersection_line(o, d, fwd)]
    /\ GeomUnchanged

GeomSteps ==
    /\ op.name = "init"
    /\ \E x \in GridPos, v \in GeomDirs, t \in -MaxReplay .. MaxReplay :
          op' = [name |-> "linear_steps_with_reflection", x |-> x, v |-> v,
                 t |-> t, ret |-> linear_steps_with_reflection(x, v, t)]
    /\ GeomUnchanged

\* from where the last replay arrived: the same number of steps with the
\* direction turned round (back), and the negative number of steps (minus)
GeomStepsBack ==
    /\ op.name = "linear_steps_with_reflection"
    /\ op' = [name |-> "round_trip", x |-> op.x, v |-> op.v, t |-> op.t,
              there |-> op.ret,
              back |-> linear_steps_with_reflection(op.ret.x, Neg(op.ret.v), op.t),
              minus |-> linear_steps_with_reflection(op.ret.x, op.ret.v, -op.t)]
    /\ GeomUnchanged

GeomReflect ==
    /\ op.name = "init"
    /\ \E v \in GeomDirs, n \in Normals :
          op' = [name |-> "reflect", v |-> v, normal |-> n, ret |-> reflect(v, n)]
    /\ GeomUnchanged

GeomReverse ==
    /\ op.name = "init"
    /\ \E x \in GridPos, v \in Dirs :
          op' = [name |-> "reverse", x |-> x, v |-> v, ret |-> reverse(x, v)]
    /\ GeomUnchanged

\* gradient at one point for two directions of travel
GeomGradient ==
    /\ op.name = "init"
    /\ \E x \in GridPos, v \in Dirs, u \in Dirs :
          op' = [name |-> "gradient", x |-> x, v |-> v, u |-> u,
                 ret |-> gradient(x, v), ret_u |-> gradient(x, u)]
    /\ GeomUnchanged

GeomNext ==
    \/ GeomIntersect
    \/ GeomSteps
    \/ GeomStepsBack
    \/ GeomReflect
    \/ GeomReverse
    \/ GeomGradient

SpecGeom == GeomInit /\ [][GeomNext]_vars

-----------------------------------------------------------------------------
(* nuts_step on a straight path: every index from the start to the cube     *)
(* wall is recorded, one step apart along one direction, and the tree is    *)
(* doubled on one side only, as far as the recorded points reach.           *)

\* the steps of a straight path: one grid unit along an axis or a diagonal
UnitSteps == ({-1, 0, 1} \X {-1, 0, 1}) \ {<<0, 0>>}

straight_point(x0, v, k) == <<x0[1] + k * v[1], x0[2] + k * v[2]>>

\* the path of the indices 0, sign, 2*sign, ... while the points lie in the cube
RECURSIVE straight_path(_, _, _, _)
straight_path(pts, x0, v, sign) ==
    LET k == Len(pts) * sign
    IN IF straight_point(x0, v, k) \in Pos
       THEN straight_path(add(pts, k, straight_point(x0, v, k), v, Lmin + 1), x0, v, sign)
       ELSE pts

StraightInit ==
    /\ \E x0 \in Pos, v \in UnitSteps, fwd \in BOOLEAN :
          /\ points = straight_path(<<>>, x0, v, IF fwd THEN 1 ELSE -1)
          /\ Len(points) >= 2
          /\ op = [name |-> "init", i |-> 0, fwd |-> fwd, cont |-> TRUE,
                   was_fwd |-> TRUE, was_rwd |-> TRUE, ret |-> "None"]
    /\ like = {}
    /\ fwd_possible = TRUE
    /\ rwd_possible = TRUE
    /\ ncalls = 0
    /\ nreflections = 0
    /\ self_fwd_possible = TRUE
    /\ self_rwd_possible = TRUE
    /\ region = "wall"
    /\ evals = <<>>
    /\ bisects = <<>>
    /\ reflects = <<>>
    /\ pc = "loop"
    /\ nuts = [left_state |-> state0, right_state |-> state0, j |-> 0,
               validrange |-> <<0, 0>>, stop |-> FALSE]
    /\ sample = NoSample
    /\ stepsampler = NoStepSampler

\* one pass of the while loop of nuts_step with the coin falling on the side
\* of the path, while the tree stays within the recorded points
StraightIteration ==
    /\ pc = "loop"
    /\ LET rwd == ~op.fwd
           target == IF rwd THEN nuts.left_state[1] - Pow2(nuts.j)
                            ELSE nuts.right_state[1] + Pow2(nuts.j)
       IN /\ target \in PathIndices(points)
          /\ \E o \in nuts_iteration(World, nuts, rwd) :
                /\ Commit(o.w)
                /\ nuts' = o.nuts
                /\ pc' = IF o.err # "" THEN "raised"
                         ELSE IF o.exit THEN "sample" ELSE "loop"
                /\ op' = [name |-> "nuts_step", i |-> target, fwd |-> ~rwd,
                          cont |-> TRUE, was_fwd |-> fwd_possible,
                          was_rwd |-> rwd_possible, ret |-> o.err, j |-> nuts.j,
                          tree |-> o.tree]
    /\ UNCHANGED sample

SpecStraight == StraightInit /\ [][StraightIteration]_vars

-----------------------------------------------------------------------------
(* stepsampler.py: StepSampler.__next__.  The caller passes the region, the  *)
(* threshold Lmin and the live points; move() is left to the subclasses and *)
(* returns any proposals.                                                   *)

\* __next__ is followed for this many calls
MaxDraws == 3
\* samplers are constructed with nsteps up to this
MaxNsteps == 3

\* the positions proposals and live points take: a row across the cube, its
\* two ends on the faces of the cube
StepPoints == {<<2 * k, One \div 2>> : k \in 0 .. (One \div 2)}
\* loglike(transform(u)), the same at every call
loglike(u) == ((u[1] + u[2]) \div 2) % 3
\* transform(u): the physical parameters of a point of the cube
transform(u) == [a \in Axes |-> 10 * u[a] - One]
\* np.logical_and(u > 0, u < 1).all()
strictly_inside(u) == \A a \in Axes : u[a] > 0 /\ u[a] < One
\* the regions the caller passes
StepRegions == {"all", "low", "high", "edge"}
\* region.inside(u)
region_inside(r, u) ==
    IF r = "all" THEN TRUE
    ELSE IF r = "low" THEN u[1] <= One \div 2
    ELSE IF r = "high" THEN u[1] >= One \div 2
    ELSE u[1] > One \div 2
\* the thresholds the caller passes; they never fall
Thresholds == {Lmin, Lmin + 1}
\* the live points: inside the cube, at or above the threshold
LivePoints(L) == {u \in StepPoints : strictly_inside(u) /\ loglike(u) >= L}
\* what move() may return: one or two proposals
Proposals == {<<u>> : u \in StepPoints} \cup {<<u, w>> : u \in StepPoints, w \in StepPoints}

\* __init__(nsteps)
StepSampler_init(nsteps) ==
    [nsteps |-> nsteps, history |-> <<>>, last |-> NoLast, nrejects |-> 0,
     scale |-> <<0, 0>>]

\* scale is 1.04^scale[1] * 0.1^scale[2]
adjust_outside_region(self) ==
    [self EXCEPT !.scale = <<@[1], @[2] + 1>>, !.last = NoLast]

adjust_accept(self, accepted, unew, Lnew) ==
    IF accepted
    THEN [self EXCEPT !.scale = <<@[1] + 1, @[2]>>,
                      !.last = [u |-> unew, L |-> Lnew],
                      !.history = Append(@, [u |-> unew, L |-> Lnew])]
    ELSE [self EXCEPT !.scale = <<@[1] - 1, @[2]>>, !.nrejects = @ + 1]

reset(self) == [self EXCEPT !.nrejects = 0]

\* the most recent history entry of any likelihood inside the region
RECURSIVE resume_unchecked(_, _, _, _)
resume_unchecked(history, n, r, L) ==
    IF n = 0 THEN NoLast
    ELSE IF region_inside(r, history[n].u) THEN history[n]
    ELSE resume_unchecked(history, n - 1, r, L)

\* for uj, Lj in self.history[::-1]: the most recent entry at or above Lmin
\* and inside the region, taken from entry n downward
RECURSIVE resume(_, _, _, _)
resume(history, n, r, L) ==
    IF n = 0 THEN NoLast
    ELSE IF history[n].L >= L /\ region_inside(r, history[n].u) THEN history[n]
    ELSE resume(history, n - 1, r, L)

\* ui, Li after the two tests of self.last and the search of the history
starting_point(self, r, L) ==
    LET kept == IF self.last.L # NoneL /\ ~(self.last.L >= L) THEN NoLast
                ELSE self.last
        inside == IF kept.L # NoneL /\ ~region_inside(r, kept.u) THEN NoLast
                  ELSE kept
    IN IF inside.L = NoneL /\ self.history # <<>>
       THEN [p |-> resume(self.history, Len(self.history), r, L),
             from |-> "history"]
       ELSE [p |-> inside, from |-> "last"]

\* every proposal inside the region kept, on the faces of the cube or not
RECURSIVE filter_proposals_region_only(_, _)
filter_proposals_region_only(unew, r) ==
    IF unew = <<>> THEN <<>>
    ELSE IF region_inside(r, Head(unew))
         THEN <<Head(unew)>> \o filter_proposals_region_only(Tail(unew), r)
         ELSE filter_proposals_region_only(Tail(unew), r)

\* the proposals strictly inside the cube, then those inside the region
RECURSIVE filter_proposals(_, _)
filter_proposals(unew, r) ==
    IF unew = <<>> THEN <<>>
    ELSE IF strictly_inside(Head(unew)) /\ region_inside(r, Head(unew))
         THEN <<Head(unew)>> \o filter_proposals(Tail(unew), r)
         ELSE filter_proposals(Tail(unew), r)

NoReturn == [u |-> <<>>, p |-> <<>>, L |-> NoneL]

\* __next__ from move() on: self with the starting point s chosen, the
\* proposals unew that move(ui, region) returned
after_move(self, s, r, L, unew) ==
    LET inside == filter_proposals(unew, r)
        u == Head(inside)
        Lnew == loglike(u)
        accepted == adjust_accept(self, TRUE, u, Lnew)
    IN IF inside = <<>>
       THEN [self |-> adjust_outside_region(self), err |-> "", start |-> s,
             evaluated |-> <<>>, nc |-> 0, accepted |-> FALSE, ret |-> NoReturn]
       ELSE IF Lnew >= L
       THEN IF Len(accepted.history) >= self.nsteps
            THEN [self |-> [accepted EXCEPT !.history = <<>>, !.last = NoLast],
                  err |-> "", start |-> s, evaluated |-> <<u>>, nc |-> 1,
                  accepted |-> TRUE,
                  ret |-> [u |-> u, p |-> transform(u), L |-> Lnew]]
            ELSE [self |-> accepted, err |-> "", start |-> s, evaluated |-> <<u>>,
                  nc |-> 1, accepted |-> TRUE, ret |-> NoReturn]
       ELSE [self |-> adjust_accept(self, FALSE, u, Lnew), err |-> "", start |-> s,
             evaluated |-> <<u>>, nc |-> 1, accepted |-> FALSE, ret |-> NoReturn]

\* the assertions of the fresh start failed: nothing was changed yet
start_failed(self) ==
    [self |-> self, err |-> "AssertionError",
     start |-> [p |-> NoLast, from |-> "none"], evaluated |-> <<>>, nc |-> 0,
     accepted |-> FALSE, ret |-> NoReturn]

\* a fresh start at the live point ui
fresh_start(self, ui, r, L, unew) ==
    IF ~strictly_inside(ui) THEN start_failed(self)
    ELSE after_move([reset(self) EXCEPT
                        !.history = Append(@, [u |-> ui, L |-> loglike(ui)])],
                    [p |-> [u |-> ui, L |-> loglike(ui)], from |-> "live"],
                    r, L, unew)

\* __next__ with the starting point s found so far
StepSampler_next_of(self, s, r, L, us, unew) ==
    IF s.p.L # NoneL THEN {after_move(self, s, r, L, unew)}
    ELSE IF {u \in us : region_inside(r, u)} = {}
    THEN {start_failed(self)}
    ELSE {fresh_start(self, ui, r, L, unew) : ui \in {u \in us : region_inside(r, u)}}

\* __next__(region, Lmin, us, Ls, transform, loglike): one outcome for each
\* live point np.random.randint may pick
StepSampler_next(self, r, L, us, unew) ==
    StepSampler_next_of(self, starting_point(self, r, L), r, L, us, unew)

NoCall == [name |-> "init", n |-> 0, Lmin |-> Lmin, region |-> "all",
           unew |-> <<>>, err |-> "", start |-> [p |-> NoLast, from |-> "none"],
           evaluated |-> <<>>, nc |-> 0, accepted |-> FALSE, ret |-> NoReturn,
           before |-> NoStepSampler, made |-> 0]

StepInit ==
    /\ Init
    /\ points[1] = <<0, <<One \div 4, One \div 4>>, <<Slow, Fast>>, Lmin>>
    /\ region = "wall"

\* StepSampler(nsteps)
StepConstruct ==
    /\ op.name = "init"
    /\ stepsampler = NoStepSampler
    /\ \E nsteps \in 1 .. MaxNsteps : stepsampler' = StepSampler_init(nsteps)
    /\ op' = NoCall
    /\ UNCHANGED <<points, fwd_possible, rwd_possible, ncalls, nreflections,
                   self_fwd_possible, self_rwd_possible, like, region, evals,
                   bisects, reflects, pc, nuts, sample>>

\* one call of __next__; made counts the accepted steps since the starting
\* point was last chosen among the live points
StepDraw ==
    /\ op.name \in {"init", "__next__"}
    /\ stepsampler # NoStepSampler
    /\ op.n < MaxDraws
    /\ \E L \in {t \in Thresholds : t >= op.Lmin}, r \in StepRegions,
          unew \in Proposals :
          \E o \in StepSampler_next(stepsampler, r, L, LivePoints(L), unew) :
             /\ stepsampler' = o.self
             /\ op' = [name |-> "__next__", n |-> op.n + 1, Lmin |-> L, region |-> r,
                       unew |-> unew, err |-> o.err, start |-> o.start,
                       evaluated |-> o.evaluated, nc |-> o.nc,
                       accepted |-> o.accepted, ret |-> o.ret,
                       before |-> stepsampler,
                       made |-> (IF o.start.from \in {"live", "none"} THEN 0 ELSE op.made)
                                + (IF o.accepted THEN 1 ELSE 0)]
    /\ UNCHANGED <<points, fwd_possible, rwd_possible, ncalls, nreflections,
                   self_fwd_possible, self_rwd_possible, like, region, evals,
                   bisects, reflects, pc, nuts, sample>>

StepNext ==
    \/ StepConstruct
    \/ StepDraw

SpecStep == StepInit /\ [][StepNext]_vars

-----------------------------------------------------------------------------
(* stepsampler.py: SamplingPathStepSampler.  One call of __next__ makes one *)
(* step along the current path; the path, its cache and its dead ends are   *)
(* kept from call to call.                                                  *)

\* samplers are constructed with nresets up to this
MaxNresets == 2
\* balance, in percent: the default 0.01
Balance == 1
\* Lnew = -np.inf
MinusInf == -2

\* the live points of a run: on the grid of the paths, inside the cube, at or
\* above the threshold
PathLivePoints(L) == {u \in GridPos : strictly_inside(u) /\ loglike(u) >= L}

\* self.cache[k] = val
cache_set(cache, k, val) ==
    [i \in (DOMAIN cache) \cup {k} |-> IF i = k THEN val ELSE cache[i]]

\* start(): the counters, last, history, direction, deadends and path
start(self) ==
    [self EXCEPT !.nrejects = 0, !.naccepts = 0, !.nreflects = 0, !.nstuck = 0,
                 !.istep = 0, !.iresets = 0, !.noutside_regions = 0,
                 !.last = NoLast, !.history = <<>>, !.direction = 1,
                 !.deadends = {}, !.path = <<>>]

terminate_path(self) ==
    [self EXCEPT !.nstuck = IF -1 \in self.deadends /\ 1 \in self.deadends
                            THEN @ + 1 ELSE @,
                 !.direction = 1, !.deadends = {}, !.path = <<>>,
                 !.iresets = @ + 1]

\* __init__(nresets, nsteps): the fields, then start() and terminate_path();
\* path is the list of points of the path, empty for None
SamplingPathStepSampler_init(nresets, nsteps) ==
    terminate_path(start(
        [nsteps |-> nsteps, nresets |-> nresets, history |-> <<>>, last |-> NoLast,
         nrejects |-> 0, naccepts |-> 0, nreflects |-> 0, nstuck |-> 0,
         noutside_regions |-> 0, scale |-> 0, istep |-> 0, iresets |-> 0,
         direction |-> 1, deadends |-> {}, path |-> <<>>, lasti |-> 0,
         nexti |-> 0, cache |-> <<>>]))

\* start_path(ui, region) with the direction v that generate_direction drew
start_path(self, ui, r, v) ==
    IF ~(v[1] * v[1] + v[2] * v[2] > 0) \/ ~region_inside(r, ui) \/ ~strictly_inside(ui)
    THEN [self |-> self, err |-> "AssertionError"]
    ELSE [self |-> [self EXCEPT !.path = add(<<>>, 0, ui, v, 0),
                                !.direction = 1, !.lasti = 0,
                                !.cache = cache_set(<<>>, 0,
                                              [accepted |-> TRUE, u |-> ui,
                                               L |-> self.last.L]),
                                !.deadends = {}],
          err |-> ""]

\* the rest of movei once the path exists
movei_on(self) ==
    LET direction == IF (self.lasti + self.direction) \in self.deadends
                     THEN -self.direction ELSE self.direction
    IN IF (self.lasti - 1) \in self.deadends /\ (self.lasti + 1) \in self.deadends
       THEN [self |-> self, err |-> "AssertionError"]
       ELSE [self |-> [self EXCEPT !.direction = direction,
                                   !.nexti = self.lasti + direction],
             err |-> ""]

movei_started(m) == IF m.err # "" THEN m ELSE movei_on(m.self)

\* movei(ui, region)
movei(self, ui, r, v) ==
    IF self.path # <<>> /\ (self.lasti - 1) \in self.deadends
                        /\ (self.lasti + 1) \in self.deadends
    THEN [self |-> [self EXCEPT !.nexti = self.lasti], err |-> ""]
    ELSE IF self.path = <<>> THEN movei_started(start_path(self, ui, r, v))
    ELSE movei_on(self)

\* get_point(inew): the recorded point of that index, or the extrapolation
get_point(self, inew) ==
    IF \E n \in 1 .. Len(self.path) : self.path[n][1] = inew
    THEN LET n == CHOOSE k \in 1 .. Len(self.path) : self.path[k][1] = inew
         IN [ok |-> TRUE, err |-> "", x |-> self.path[n][2], v |-> self.path[n][3]]
    ELSE extrapolate(self.path, inew)

SamplingPathStepSampler_adjust_accept(self, accepted, unew, Lnew) ==
    IF accepted
    THEN [self EXCEPT !.cache = cache_set(@, self.nexti,
                                    [accepted |-> TRUE, u |-> unew, L |-> Lnew]),
                      !.lasti = self.nexti,
                      !.last = [u |-> unew, L |-> Lnew],
                      !.history = Append(@, [u |-> unew, L |-> Lnew]),
                      !.naccepts = @ + 1]
    ELSE [self EXCEPT !.cache = cache_set(@, self.nexti,
                                    [accepted |-> FALSE, u |-> unew, L |-> Lnew]),
                      !.nrejects = @ + 1,
                      !.history = Append(@, [u |-> unew, L |-> Lnew])]

SamplingPathStepSampler_adjust_outside_region(self) ==
    [self EXCEPT !.noutside_regions = @ + 1, !.nrejects = @ + 1]

\* scale is nudge^scale
adjust_scale(self) ==
    IF self.naccepts * 100 < (self.nrejects + self.naccepts) * Balance
    THEN [self EXCEPT !.scale = @ - 1]
    ELSE [self EXCEPT !.scale = @ + 1]

\* the step count raised and the path ended once it reaches nsteps
count_step(self) ==
    IF self.istep + 1 = self.nsteps
    THEN [terminate_path(self) EXCEPT !.istep = 0]
    ELSE [self EXCEPT !.istep = @ + 1]

\* the end of __next__: c has the step counted; uret is what a return hands out
path_return(c, s, started, uret, nc, evaluated) ==
    IF c.iresets >= c.nresets
    THEN IF ~(Len(c.history) > 1)
         THEN [self |-> c, err |-> "AssertionError", start |-> s, started |-> started,
               evaluated |-> evaluated, nc |-> nc, ret |-> NoReturn]
         ELSE [self |-> [start(adjust_scale(c)) EXCEPT !.last = NoLast],
               err |-> "", start |-> s, started |-> started,
               evaluated |-> evaluated, nc |-> nc,
               ret |-> [u |-> uret.u, p |-> transform(uret.u), L |-> uret.L]]
    ELSE [self |-> c, err |-> "", start |-> s, started |-> started,
          evaluated |-> evaluated, nc |-> nc, ret |-> NoReturn]

\* an exception left __next__ with self as it was by then
path_raised(self, s, started, err) ==
    [self |-> self, err |-> err, start |-> s, started |-> started,
     evaluated |-> <<>>, nc |-> 0, ret |-> NoReturn]

\* the reflection at the rejected point g = get_point(inew), k the point one
\* step along the reflected direction
path_reflected(self, s, r, L, started, nc, evaluated, k) ==
    LET old == self.cache[self.lasti]
        inew == self.nexti
    IN IF strictly_inside(k.x) /\ region_inside(r, k.x)
       THEN IF loglike(k.x) >= L
            THEN path_return(
                    count_step(SamplingPathStepSampler_adjust_accept(
                        [self EXCEPT !.path = add(@, inew, k.x, k.v, loglike(k.x))],
                        TRUE, k.x, loglike(k.x))),
                    s, started, [u |-> k.x, L |-> loglike(k.x)], nc + 1,
                    Append(evaluated, k.x))
            ELSE path_return(
                    count_step([SamplingPathStepSampler_adjust_accept(
                                    self, FALSE, k.x, loglike(k.x))
                                EXCEPT !.deadends = @ \cup {inew}]),
                    s, started, old, nc + 1, Append(evaluated, k.x))
       ELSE path_return(
               count_step([SamplingPathStepSampler_adjust_outside_region(self)
                           EXCEPT !.deadends = @ \cup {inew}]),
               s, started, old, nc, evaluated)

\* reflpoint, v = self.get_point(inew); vnew = self.reflect(reflpoint, v * sign) * sign
path_reflect(self, s, r, L, started, nc, evaluated, g) ==
    LET sign == IF self.nexti < 0 THEN -1 ELSE 1
        vnew == Times(reflect(Times(g.v, sign), normal_of(region, g.x)), sign)
    IN path_reflected([self EXCEPT !.nreflects = @ + 1], s, r, L, started, nc,
                      evaluated, extrapolate_ahead(sign, g.x, vnew))

\* if Lnew >= Lmin: ... else: ...; cached tells whether inew was in the cache
path_judge(self, s, r, L, started, unew, Lnew, cached, nc, evaluated) ==
    LET old == self.cache[self.lasti]
    IN IF Lnew >= L
       THEN path_return(
               count_step(SamplingPathStepSampler_adjust_accept(self, TRUE, unew, Lnew)),
               s, started, [u |-> unew, L |-> Lnew], nc, evaluated)
       ELSE IF ~cached /\ self.nexti \notin self.deadends
       THEN path_reflect(self, s, r, L, started, nc, evaluated,
                         get_point(self, self.nexti))
       ELSE path_return(
               count_step(SamplingPathStepSampler_adjust_accept(self, FALSE, old.u, old.L)),
               s, started, old, nc, evaluated)

\* inew is not in the cache: g = get_point(inew)
path_propose(self, s, r, L, started, g) ==
    IF g.err # "" THEN path_raised(self, s, started, g.err)
    ELSE IF strictly_inside(g.x) /\ region_inside(r, g.x)
    THEN path_judge(self, s, r, L, started, g.x, loglike(g.x), FALSE, 1, <<g.x>>)
    ELSE path_judge([SamplingPathStepSampler_adjust_outside_region(self)
                     EXCEPT !.deadends = @ \cup {self.nexti}],
                    s, r, L, started, g.x, MinusInf, FALSE, 0, <<>>)

\* __next__ after movei
path_try(self, s, r, L, started) ==
    LET old == self.cache[self.lasti]
        inew == self.nexti
    IN IF inew # self.lasti
       THEN IF inew \notin DOMAIN self.cache
            THEN path_propose(self, s, r, L, started, get_point(self, inew))
            ELSE path_judge(self, s, r, L, started, self.cache[inew].u,
                            self.cache[inew].L, TRUE, 0, <<>>)
       ELSE path_return(
               count_step(SamplingPathStepSampler_adjust_accept(
                              [self EXCEPT !.nstuck = @ + 1], FALSE, old.u, old.L)),
               s, started, old, 0, <<>>)

path_moved(m, s, r, L, started) ==
    IF m.err # "" THEN path_raised(m.self, s, started, m.err)
    ELSE path_try(m.self, s, r, L, started)

\* __next__ from movei on, with the starting point s
path_step(self, s, r, L, v) ==
    path_moved(movei(self, s.p.u, r, v), s, r, L, self.path = <<>>)

\* the fresh start of SamplingPathStepSampler.__next__ at the live point ui
path_fresh_start(self, ui, r, L, v) ==
    IF ~strictly_inside(ui)
    THEN path_raised(self, [p |-> NoLast, from |-> "none"], FALSE, "AssertionError")
    ELSE path_step([start(self) EXCEPT
                       !.history = <<[u |-> ui, L |-> loglike(ui)]>>,
                       !.last = [u |-> ui, L |-> loglike(ui)]],
                   [p |-> [u |-> ui, L |-> loglike(ui)], from |-> "live"], r, L, v)

SamplingPathStepSampler_next_of(self, s, r, L, us, v) ==
    IF s.p.L # NoneL THEN {path_step(self, s, r, L, v)}
    ELSE IF {u \in us : region_inside(r, u)} = {}
    THEN {path_raised(self, [p |-> NoLast, from |-> "none"], FALSE, "AssertionError")}
    ELSE {path_fresh_start(self, ui, r, L, v) : ui \in {u \in us : region_inside(r, u)}}

\* SamplingPathStepSampler.__next__(region, Lmin, us, Ls, transform, loglike)
\* with the direction v a new path would take
SamplingPathStepSampler_next(self, r, L, us, v) ==
    SamplingPathStepSampler_next_of(self, starting_point(self, r, L), r, L, us, v)

PathStepInit ==
    /\ Init
    /\ points[1] = <<0, <<One \div 4, One \div 4>>, <<Slow, Fast>>, Lmin>>

PathStepUnchanged ==
    UNCHANGED <<points, fwd_possible, rwd_possible, ncalls, nreflections,
                self_fwd_possible, self_rwd_possible, like, region, evals,
                bisects, reflects, pc, nuts, sample>>

\* SamplingPathStepSampler(nresets, nsteps)
PathStepConstruct ==
    /\ op.name = "init"
    /\ stepsampler = NoStepSampler
    /\ \E nresets \in 1 .. MaxNresets, nsteps \in 1 .. MaxNsteps :
          stepsampler' = SamplingPathStepSampler_init(nresets, nsteps)
    /\ op' = [NoCall EXCEPT !.made = 0] @@ [started |-> FALSE, calls |-> 0]
    /\ PathStepUnchanged

\* one call of __next__; calls counts the calls since start() ran last
PathStepDraw ==
    /\ op.name \in {"init", "__next__"}
    /\ stepsampler # NoStepSampler
    /\ op.n < MaxDraws
    /\ \E L \in {t \in Thresholds : t >= op.Lmin}, r \in StepRegions :
          \E v \in (IF stepsampler.path = <<>> \/ stepsampler.last.L = NoneL
                    THEN StartDirections ELSE {<<Slow, Fast>>}) :
             \E o \in SamplingPathStepSampler_next(stepsampler, r, L, PathLivePoints(L), v) :
                /\ stepsampler' = o.self
                /\ op' = [name |-> "__next__", n |-> op.n + 1, Lmin |-> L,
                          region |-> r, unew |-> <<>>, err |-> o.err,
                          start |-> o.start, evaluated |-> o.evaluated,
                          nc |-> o.nc, accepted |-> o.ret # NoReturn, ret |-> o.ret,
                          before |-> stepsampler, made |-> 0,
                          started |-> o.started,
                          calls |-> (IF o.start.from \in {"live", "none"} THEN 0
                                     ELSE op.calls) + 1]
    /\ PathStepUnchanged

PathStepNext ==
    \/ PathStepConstruct
    \/ PathStepDraw

SpecPathStep == PathStepInit /\ [][PathStepNext]_vars

-----------------------------------------------------------------------------
(* stepsampler.py: DESampler.move, the draw of the two live points whose    *)
(* difference is the direction of the proposal.                             *)

\* regions hold up to this many live points
MaxLive == 6

\* region.u: n live points, no two alike in any coordinate
region_u(n) == [i \in 0 .. (n - 1) |-> <<i + 1, One - 1 - i>>]

\* the indices j and k after the shifts; rj and rk are what
\* np.random.randint(n - 1) and np.random.randint(n - 2) returned
DESampler_indices(starti, n, rj, rk) ==
    LET j == IF rj >= starti THEN rj + 1 ELSE rj
        k1 == IF rk >= starti THEN rk + 1 ELSE rk
        k == IF k1 >= j THEN k1 + 1 ELSE k1
    IN [j |-> j, k |-> k]

\* move(ui, region) up to the direction; the proposals are ui plus random
\* multiples of it
DESampler_move(self, n, rj, rk) ==
    LET d == DESampler_indices(self.starti, n, rj, rk)
        direction == Minus(region_u(n)[d.j], region_u(n)[d.k])
    IN [j |-> d.j, k |-> d.k, direction |-> direction,
        err |-> IF \A a \in Axes : direction[a] # 0 THEN "" ELSE "AssertionError"]

\* a DESampler that chose its starting point as live point starti of n
DEInit ==
    /\ \E n \in 3 .. MaxLive : \E starti \in 0 .. (n - 1) :
          /\ op = [name |-> "init", n |-> n]
          /\ stepsampler = [nsteps |-> 1, history |-> <<>>, last |-> NoLast,
                            nrejects |-> 0, scale |-> <<0, 0>>, starti |-> starti]
    /\ points = <<<<0, <<One \div 4, One \div 4>>, <<Slow, Fast>>, Lmin>>>>
    /\ like = {}
    /\ fwd_possible = TRUE
    /\ rwd_possible = TRUE
    /\ ncalls = 0
    /\ nreflections = 0
    /\ self_fwd_possible = TRUE
    /\ self_rwd_possible = TRUE
    /\ region = "wall"
    /\ evals = <<>>
    /\ bisects = <<>>
    /\ reflects = <<>>
    /\ pc = "idle"
    /\ nuts = [left_state |-> state0, right_state |-> state0, j |-> 0,
               validrange |-> <<0, 0>>, stop |-> FALSE]
    /\ sample = NoSample

\* one call of move, for every outcome of the two draws
DEMove ==
    /\ op.name = "init"
    /\ \E rj \in 0 .. (op.n - 2), rk \in 0 .. (op.n - 3) :
          LET o == DESampler_move(stepsampler, op.n, rj, rk)
          IN op' = [name |-> "move", n |-> op.n, rj |-> rj, rk |-> rk, j |-> o.j,
                    k |-> o.k, direction |-> o.direction, err |-> o.err]
    /\ UNCHANGED stepsampler
    /\ PathStepUnchanged

SpecDE == DEInit /\ [][DEMove]_vars

-----------------------------------------------------------------------------
(* Properties *)

\* max(self.points)[0] / min(self.points)[0] of the path as it stands
frontier(fwd) == IF fwd THEN max_point(points)[1] ELSE min_point(points)[1]

\* C1: every point stored on the path has a likelihood of at least Lmin, and
\* a position whose likelihood was evaluated below Lmin is never on the path,
\* whatever operations ran
C1_StoredPointsAtLeastLmin ==
    \A p \in PointSet(points) :
        /\ p[4] # NoneL
        /\ p[4] >= Lmin
        /\ \A e \in like : e[2] < Lmin => e[1] # p[2]

\* a candidate below Lmin was evaluated by the operation that stored points
C1_BelowLminEvaluated ==
    /\ Len(points) >= 3
    /\ \E k \in 1 .. Len(evals) : evals[k].L < Lmin /\ ~evals[k].accepted

\* C2: a nuts_step episode never ends in an exception, and the point it
\* returns lies in the unit cube
C2_EpisodeReturnsPointInCube ==
    /\ pc # "raised"
    /\ pc = "done" => sample.x \in Pos

\* C3: the point sample_chain_point(a, b) returns was reported on_path by
\* interpolate, its index lies in a .. b, and it lies within the stored path
\* (it is not an index clamped beyond a closed side)
C3_SampleOnPathInRange ==
    pc = "done" =>
        /\ sample.on_path
        /\ nuts.validrange[1] <= sample.i /\ sample.i <= nuts.validrange[2]
        /\ frontier(FALSE) <= sample.i /\ sample.i <= frontier(TRUE)

\* a point was returned from a range that reaches beyond a closed side
C3_ReturnedWithClampedIndices ==
    /\ pc = "done"
    /\ \/ nuts.validrange[1] < frontier(FALSE) /\ ~rwd_possible
       \/ nuts.validrange[2] > frontier(TRUE) /\ ~fwd_possible

\* C4: the likelihood sample_chain_point returns is never the unknown value:
\* the returned position was evaluated and found at or above Lmin
C4_ReturnedLikelihoodKnown ==
    pc = "done" => sample.L # NoneL /\ sample.L >= Lmin

\* the points the accepted calls of a list of evaluations store, in order
Recorded(es) ==
    LET acc == SelectSeq(es, LAMBDA e : e.accepted)
    IN [k \in 1 .. Len(acc) |-> <<acc[k].i, acc[k].x, acc[k].v, acc[k].L>>]

\* C5 as stated: a call of add_if_above_threshold accepts exactly when the
\* likelihood is at least Lmin, the boundary L = Lmin included
C5_AcceptsAtLeastLmin ==
    \A k \in 1 .. Len(evals) : evals[k].accepted <=> evals[k].L >= Lmin

\* C5: every call of add_if_above_threshold in an operation accepts exactly
\* when the likelihood is strictly above Lmin; the accepted calls, and only
\* they, append their point at the given index; each call fixes one
\* likelihood value and adds one to ncalls
C5_AcceptsStrictlyAboveLmin ==
    [][ /\ \A k \in 1 .. Len(evals') : evals'[k].accepted <=> evals'[k].L > Lmin
        /\ points' = points \o Recorded(evals')
        /\ ncalls' = ncalls + Len(evals')
        /\ like' = like \cup {<<evals'[k].x, evals'[k].L>> : k \in 1 .. Len(evals')}
      ]_vars

\* a candidate exactly at Lmin was evaluated, and rejected
C5_BoundaryEvaluated ==
    \E k \in 1 .. Len(evals) : evals[k].L = Lmin /\ ~evals[k].accepted

\* C6: both flags are true on a new path; a flag that is false stays false
\* through every operation; an operation that closes one side leaves the
\* other side's flag as it was
C6_FlagsMonotone ==
    /\ fwd_possible = TRUE
    /\ rwd_possible = TRUE
    /\ [][ /\ ~fwd_possible => ~fwd_possible'
           /\ ~rwd_possible => ~rwd_possible'
           /\ fwd_possible # fwd_possible' => rwd_possible' = rwd_possible
         ]_vars

\* an operation ran toward a side that was closed before it, and evaluated
\* candidates there; the side is still closed and the other side still open
C6_RetriedClosedSide ==
    /\ evals # <<>>
    /\ \/ op.fwd /\ ~op.was_fwd /\ ~fwd_possible /\ rwd_possible
       \/ ~op.fwd /\ ~op.was_rwd /\ ~rwd_possible /\ fwd_possible

\* C7: once StepSampler.expand_onestep has closed a side, a following
\* StepSampler.expand_to_step toward that side evaluates no likelihood and
\* tries no reflection
C7_NoRetryOnClosedSide ==
    [][ ( /\ op.name \in {"expand_onestep", "step_expand"}
          /\ \/ op.fwd /\ op.was_fwd /\ ~fwd_possible
             \/ ~op.fwd /\ op.was_rwd /\ ~rwd_possible
          /\ op'.name = "step_expand"
          /\ op'.fwd = op.fwd )
        => /\ evals' = <<>>
           /\ ncalls' = ncalls
           /\ nreflections' = nreflections
      ]_vars

\* C8: expand_onestep evaluates the straight candidate one index beyond
\* the frontier and, only if that is rejected, the candidate one step along
\* the reflected direction from the rejected point; if both are rejected it
\* returns False, closes that side only and stores nothing; otherwise it
\* returns True and stores exactly one point, at the frontier index +-1
C8_ExpandOnestepOutcome ==
    [][ op'.name = "expand_onestep" =>
        LET fwd == op'.fwd
            sign == IF fwd THEN 1 ELSE -1
            j == frontier(fwd) + sign
            n == Len(evals')
            straight == extrapolate(points, j)
            reflected == reflected_step(straight.x, straight.v, sign)
        IN /\ n \in {1, 2}
           /\ evals'[1].i = j /\ evals'[1].x = straight.x
           /\ n = 2 <=> ~evals'[1].accepted
           /\ n = 2 => evals'[2].i = j /\ evals'[2].x = reflected.x
           /\ nreflections' = nreflections + (n - 1)
           /\ IF evals'[n].accepted
              THEN /\ op'.ret = "True"
                   /\ Len(points') = Len(points) + 1
                   /\ SubSeq(points', 1, Len(points)) = points
                   /\ points'[Len(points')][1] = j
                   /\ points'[Len(points')][2] = evals'[n].x
                   /\ fwd_possible' = fwd_possible
                   /\ rwd_possible' = rwd_possible
              ELSE /\ op'.ret = "False"
                   /\ points' = points
                   /\ fwd_possible' = (fwd_possible /\ ~fwd)
                   /\ rwd_possible' = (rwd_possible /\ fwd)
      ]_vars

\* expand_onestep found both candidates rejected on a side that was open
C8_BothRejected ==
    /\ op.name = "expand_onestep"
    /\ op.ret = "False"
    /\ Len(evals) = 2
    /\ IF op.fwd THEN op.was_fwd ELSE op.was_rwd

\* what is known of the point d steps from the start of a bisection b
KnownAt(b, d) ==
    {e[2] : e \in {f \in like : f[1] = extrapolate_ahead(d, b.startx, b.startv).x}}
Sign(b) == IF b.deltai > 0 THEN 1 ELSE -1

C11_RecordedIndexReturnsStored ==
    (op.name = "interpolate" /\ op.i \in PathIndices(points)) =>
        \E n \in 1 .. Len(points) :
            /\ points[n][1] = op.i
            /\ op.ret = [err |-> "", x |-> points[n][2], v |-> points[n][3],
                         L |-> points[n][4], on_path |-> TRUE]

\* the lookup was made at the last index of a path closed on both sides,
\* with other indices recorded besides
C11_LookupAtClosedEnd ==
    /\ op.name = "interpolate"
    /\ op.i = max_point(points)[1]
    /\ op.i > 0
    /\ Len(points) = MaxPoints
    /\ ~fwd_possible
    /\ ~rwd_possible
    /\ op.ret.on_path

\* C12: the path is a mapping with unique keys: it holds at most one point
\* per index, and interpolate at a recorded index returns the point that was
\* recorded there last.
C12_RecordOverwrites ==
    /\ \A m, n \in 1 .. Len(points) : points[m][1] = points[n][1] => m = n
    /\ (op.name = "interpolate" /\ op.i \in PathIndices(points)) =>
          LET last == SetMax({n \in 1 .. Len(points) : points[n][1] = op.i})
          IN op.ret = [err |-> "", x |-> points[last][2], v |-> points[last][3],
                       L |-> points[last][4], on_path |-> TRUE]

\* C13: interpolate at an index with no recorded point on one side returns,
\* when that side is closed, the extreme recorded point of the path on that
\* side (the nearest one) with on_path false; when that side is still open
\* it raises instead.
C13_OutsideClampedOrRaises ==
    op.name = "interpolate" =>
        LET hi == max_point(points)
            lo == min_point(points)
        IN /\ (op.i > hi[1] /\ ~fwd_possible) =>
                 op.ret = [err |-> "", x |-> hi[2], v |-> hi[3], L |-> hi[4],
                           on_path |-> FALSE]
           /\ (op.i < lo[1] /\ ~rwd_possible) =>
                 op.ret = [err |-> "", x |-> lo[2], v |-> lo[3], L |-> lo[4],
                           on_path |-> FALSE]
           /\ (op.i > hi[1] /\ fwd_possible) => op.ret.err = "KeyError"
           /\ (op.i < lo[1] /\ rwd_possible) => op.ret.err = "KeyError"

\* a lookup below the first index of a path closed backward and open
\* forward returned the first point
C13_ClampedBelow ==
    /\ op.name = "interpolate"
    /\ op.i < min_point(points)[1]
    /\ min_point(points)[1] < 0
    /\ ~rwd_possible
    /\ fwd_possible
    /\ op.ret.err = ""
    /\ ~op.ret.on_path

\* the recorded neighbours of an index of the path that is not recorded
below(i) == max_point(points_before_of(points, i))
above(i) == min_point(points_after_of(points, i))
Unrecorded == {i \in Indices : /\ i \notin PathIndices(points)
                               /\ i > min_point(points)[1]
                               /\ i < max_point(points)[1]}

\* C14: on every path the samplers build, the replay forward from the
\* recorded neighbour below an unrecorded index and the replay backward from
\* the recorded neighbour above it give the same position and direction, so
\* the agreement check of interpolate never fails.
C14_ReplaysAgree ==
    \A i \in Unrecorded :
        /\ extrapolate_ahead(i - below(i)[1], below(i)[2], below(i)[3])
              = extrapolate_ahead(i - above(i)[1], above(i)[2], above(i)[3])
        /\ interpolate(World, i).err # "AssertionError"

\* C15: at an unrecorded index interpolate returns the direction the replay
\* from the recorded neighbour below arrives with (a bounce off a cube wall on
\* the way shows in it), not the direction stored at that neighbour.
C15_ReturnsReplayedDirection ==
    \A i \in Unrecorded :
        interpolate(World, i).err = "" =>
            interpolate(World, i).v
                = extrapolate_ahead(i - below(i)[1], below(i)[2], below(i)[3]).v

\* C16: extrapolate(i) returns only for an index strictly beyond the
\* recorded range (above the last index for i >= 0, below the first for
\* i < 0), with the replay of i - extreme steps from that extreme point; for
\* an index within the range, 0 included, it fails its assertion; the path
\* is left as it was either way.
C16_ExtrapolateBeyondRangeOnly ==
    [][op'.name = "extrapolate" =>
          LET hi == max_point(points)
              lo == min_point(points)
              i == op'.i
              r == op'.ret
          IN /\ points' = points
             /\ fwd_possible' = fwd_possible /\ rwd_possible' = rwd_possible
             /\ r.ok <=> (i > hi[1] \/ i < lo[1])
             /\ (i >= lo[1] /\ i <= hi[1]) => r.err = "AssertionError"
             /\ i > hi[1] =>
                   <<r.x, r.v>> = <<extrapolate_ahead(i - hi[1], hi[2], hi[3]).x,
                                    extrapolate_ahead(i - hi[1], hi[2], hi[3]).v>>
             /\ i < lo[1] =>
                   <<r.x, r.v>> = <<extrapolate_ahead(i - lo[1], lo[2], lo[3]).x,
                                    extrapolate_ahead(i - lo[1], lo[2], lo[3]).v>>
      ]_vars

\* extrapolate returned for an index below the first of several recorded
\* indices
C16_ExtrapolatedBelow ==
    /\ op.name = "extrapolate"
    /\ Len(points) = MaxPoints
    /\ min_point(points)[1] < 0
    /\ op.i < min_point(points)[1]
    /\ op.ret.ok

Interior(x) == \A a \in Axes : x[a] > 0 /\ x[a] < One

\* C17: linear_steps_with_reflection is reversible: from a start strictly
\* inside the cube, t steps from (x, v) to (x', v') followed by t steps from
\* x' with -v' arrive at x with -v, and -t steps from (x', v') arrive at
\* (x, v), however many walls and corners the replay bounces off.
C17_RoundTripReturns ==
    (op.name = "round_trip" /\ Interior(op.x)) =>
        /\ op.back = [x |-> op.x, v |-> Neg(op.v)]
        /\ op.minus = [x |-> op.x, v |-> op.v]

\* a round trip along the diagonal from the centre, through three corners,
\* that arrived with a direction other than the one it left with
C17_RoundTripThroughCorners ==
    /\ op.name = "round_trip"
    /\ op.x = <<One \div 2, One \div 2>>
    /\ op.v = <<One, One>>
    /\ op.t = 3
    /\ op.there.v = <<-One, -One>>
    /\ op.back.x = op.x

\* C18: for an origin in the cube nearest_box_intersection_line returns the
\* nearest crossing of the cube surface on the side asked for (t >= 0
\* forward, t <= 0 backward, axes of zero direction ignored), the point of
\* the line at that t, which lies on the surface, and exactly the axes whose
\* wall is crossed there, all of them at an edge or corner.  From (1/2, 1/2)
\* along (1, 0): t = 1/2, point (1, 1/2), the first axis alone.
C18_NearestCrossing ==
    op.name = "nearest_box_intersection_line" =>
        LET s == IF op.fwd THEN 1 ELSE -1
            r == op.ret
            ahead(a) == \/ s * op.v[a] > 0 /\ r.p[a] = One
                        \/ s * op.v[a] < 0 /\ r.p[a] = 0
        IN /\ r.ok
           /\ s * r.t >= 0
           /\ \A a \in Axes : r.p[a] * Sub = op.x[a] * Sub + op.v[a] * r.t
           /\ r.p \in Pos
           /\ r.i # {}
           /\ r.i = {a \in Axes : ahead(a)}
           /\ (op.x = <<One \div 2, One \div 2>> /\ op.v = <<One, 0>> /\ op.fwd) =>
                 /\ 2 * r.t = Sub
                 /\ r.p = <<One, One \div 2>>
                 /\ r.i = {1}

\* a backward crossing at a corner: both axes tie
C18_BackwardCorner ==
    /\ op.name = "nearest_box_intersection_line"
    /\ ~op.fwd
    /\ Interior(op.x)
    /\ op.ret.t < 0
    /\ op.ret.i = Axes

NormSq(v) == angle(v, v)

\* C19: reflect(v, n) = v - 2 (v.n) n keeps the Euclidean norm of v for every
\* unit normal n, and the direction StepSampler.reverse returns has the norm
\* of the direction it was given.
C19_ReflectionKeepsNorm ==
    /\ op.name = "reflect" => NormSq(op.ret) = NormSq(op.v)
    /\ op.name = "reverse" => NormSq(op.ret) = NormSq(op.v)

\* a reflection off a diagonal normal that changed the direction
C19_ReflectedOffDiagonal ==
    /\ op.name = "reflect"
    /\ op.normal = <<1, -1>>
    /\ op.ret # op.v
    /\ op.ret # Neg(op.v)

\* C20: the normal gradient returns does not depend on the direction of
\* travel it is given: at one rejected point in one region, two different
\* directions give the same normal.
C20_NormalIgnoresDirection ==
    op.name = "gradient" => op.ret = op.ret_u

\* gradient was asked at one point for two opposite directions, in the region
\* whose normal changes across the cube
C20_OppositeDirections ==
    /\ op.name = "gradient"
    /\ region = "mixed"
    /\ op.u = Neg(op.v)
    /\ op.ret = normal_of(region, op.x)

\* C21: once the likelihood of an index was computed and the point recorded,
\* no later call of the likelihood is made for that index: every evaluation
\* an operation makes is at an index that was not recorded when the
\* operation began and was not recorded by an earlier evaluation of it.
C21_RecordedIndexNotEvaluatedAgain ==
    [][\A k \in 1 .. Len(evals') :
          /\ evals'[k].i \notin PathIndices(points)
          /\ \A h \in 1 .. (k - 1) :
                evals'[h].accepted => evals'[h].i # evals'[k].i
      ]_vars

\* an operation on a path of several points evaluated one index twice: the
\* first candidate was rejected, the second recorded
C21_RejectedIndexEvaluatedAgain ==
    /\ Len(points) >= 3
    /\ \E h, k \in 1 .. Len(evals) :
          /\ h < k
          /\ evals[h].i = evals[k].i
          /\ ~evals[h].accepted
          /\ evals[k].accepted

\* the tree nuts_step built last, and the index its start state had
Built == op.name = "nuts_step" /\ op.j >= 0
tree_start == IF op.fwd THEN op.tree.lookups[1] - 1 ELSE op.tree.lookups[1] + 1
\* the first subtree of that tree: build_tree(startstate, j-1, rwd)
first_subtree ==
    build_tree(World, <<tree_start, <<0, 0>>, <<0, 0>>>>, op.j - 1, ~op.fwd)

\* C22: build_tree at a depth above 0 whose first subtree signals stop
\* returns stop with that subtree's end points and range, and makes no path
\* lookup beyond those of the first subtree: the second subtree is not built.
C22_StopInFirstSubtreeReturnsIt ==
    (Built /\ op.j > 0 /\ first_subtree.err = "" /\ first_subtree.stop) =>
        /\ op.tree.err = ""
        /\ op.tree.stop
        /\ op.tree.left = first_subtree.left
        /\ op.tree.right = first_subtree.right
        /\ op.tree.range = first_subtree.range
        /\ op.tree.lookups = first_subtree.lookups

\* a tree of depth 2 or more was cut short by its first subtree
C22_CutShort ==
    /\ Built
    /\ op.j >= 2
    /\ op.tree.err = ""
    /\ op.tree.stop
    /\ Len(op.tree.lookups) = Pow2(op.j - 1)

\* the second subtree of the tree nuts_step built last, after its first
\* subtree a
second_subtree(a) ==
    build_tree(World, IF op.fwd THEN a.right ELSE a.left, op.j - 1, ~op.fwd)

\* the U-turn check on a left and a right state
Uturn(l, r) ==
    \/ angle(Minus(r[2], l[2]), l[3]) <= 0
    \/ angle(Minus(r[2], l[2]), r[3]) <= 0
    \/ angle(l[3], r[3]) <= 0

\* the check on the end points where the subtrees a and b adjoin
InnerUturn(a, b) ==
    IF op.fwd THEN Uturn(a.right, b.left) ELSE Uturn(b.right, a.left)

\* C23 (as stated): a tree combined from two subtrees signals stop if either
\* subtree signalled stop, or if the U-turn check fires on the combined outer
\* end points, or if it fires on the adjoining inner end points of the two
\* subtrees.
C23_StopOnOuterOrInnerUturn ==
    (Built /\ op.j > 0 /\ op.tree.err = "") =>
        \A a \in {first_subtree} :
            ~a.stop =>
                \A b \in {second_subtree(a)} :
                    (\/ b.stop
                     \/ Uturn(op.tree.left, op.tree.right)
                     \/ InnerUturn(a, b)) => op.tree.stop

\* C23 (amended): a tree combined from two subtrees has the outer end points
\* of the two as its end points and signals stop exactly if either subtree
\* signalled stop or the U-turn check (the span against either end velocity,
\* or the two end velocities against each other) fires on these combined outer
\* end points; the adjoining inner end points are not checked.
C23_StopOnOuterUturn ==
    (Built /\ op.j > 0 /\ op.tree.err = "") =>
        \A a \in {first_subtree} :
            ~a.stop =>
                \A b \in {second_subtree(a)} :
                    /\ op.tree.left = (IF op.fwd THEN a.left ELSE b.left)
                    /\ op.tree.right = (IF op.fwd THEN b.right ELSE a.right)
                    /\ op.tree.stop <=>
                          (b.stop \/ Uturn(op.tree.left, op.tree.right))

\* a tree of two subtrees that did not signal stop although the check fires
\* on the inner end points
C23_InnerUturnWithoutStop ==
    /\ Built
    /\ op.j >= 2
    /\ op.tree.err = ""
    /\ ~op.tree.stop
    /\ \A a \in {first_subtree} : InnerUturn(a, second_subtree(a))

\* C24: on a straight path with every index recorded, the trees built on one
\* side and the check of nuts_step on the two end states never signal stop,
\* at any depth and on either side.
C24_StraightPathNeverStops ==
    /\ pc = "loop"
    /\ ~nuts.stop
    /\ Built => (op.tree.err = "" /\ ~op.tree.stop)

\* three doublings backward along a diagonal: the tree of depth 2 was built
C24_ThreeDoublingsBackward ==
    /\ Built
    /\ ~op.fwd
    /\ op.j = 2
    /\ points[1][3] = <<1, -1>>
    /\ nuts.validrange = <<-7, 0>>
    /\ Len(op.tree.lookups) = 4

\* C25: the valid range of nuts_step starts as (0, 0), always contains the
\* index 0, never shrinks, and changes only by taking in the range of a tree
\* that did not signal stop; the range of a stopping tree is never added.
C25_ValidRangeWidenedByUnstoppedTrees ==
    /\ nuts.validrange = <<0, 0>>
    /\ [][/\ nuts'.validrange[1] <= 0
          /\ 0 <= nuts'.validrange[2]
          /\ nuts'.validrange[1] <= nuts.validrange[1]
          /\ nuts.validrange[2] <= nuts'.validrange[2]
          /\ nuts'.validrange # nuts.validrange =>
                /\ op'.name = "nuts_step"
                /\ op'.j >= 0
                /\ op'.tree.err = ""
                /\ ~op'.tree.stop
                /\ nuts'.validrange = <<Min2(nuts.validrange[1], op'.tree.range[1]),
                                        Max2(nuts.validrange[2], op'.tree.range[2])>>]_vars

\* a tree that signalled stop reached beyond a valid range widened before,
\* and the valid range kept its bounds
C25_StoppingTreeLeftOut ==
    /\ Built
    /\ op.tree.err = ""
    /\ op.tree.stop
    /\ nuts.validrange # <<0, 0>>
    /\ \/ op.tree.range[1] < nuts.validrange[1]
       \/ op.tree.range[2] > nuts.validrange[2]

\* C26: the point __next__ hands to move() is at or above the Lmin of the call
\* and inside the region of the call; the remembered last point is used only
\* when it passes both tests, a history point only when it does, and a live
\* point inside the region exactly when neither the last point nor any history
\* point qualifies.
C26_StartingPointValid ==
    (op.name = "__next__" /\ op.err = "") =>
        /\ op.start.p.L >= op.Lmin
        /\ region_inside(op.region, op.start.p.u)
        /\ op.start.from = "last" => op.start.p = op.before.last
        /\ op.start.from = "history" =>
              \E n \in 1 .. Len(op.before.history) : op.before.history[n] = op.start.p
        /\ op.start.from = "live" <=>
              /\ ~(op.before.last.L >= op.Lmin /\ region_inside(op.region, op.before.last.u))
              /\ \A n \in 1 .. Len(op.before.history) :
                    ~(/\ op.before.history[n].L >= op.Lmin
                      /\ region_inside(op.region, op.before.history[n].u))
        /\ op.start.from = "live" => op.start.p.u \in LivePoints(op.Lmin)

\* the threshold rose above the last point and the sampler resumed from an
\* older history entry
C26_ResumedFromHistory ==
    /\ op.name = "__next__"
    /\ op.start.from = "history"
    /\ op.before.last.L # NoneL
    /\ op.before.last.L < op.Lmin
    /\ op.start.p.L >= op.Lmin

\* C27: __next__ returns a sample only for a proposal strictly inside the
\* cube and inside the region of the call whose likelihood was evaluated in
\* that call and is at or above Lmin; otherwise it returns None's; nc is the
\* number of likelihood evaluations of the call, 0 or 1.
C27_ReturnsOnlyAcceptedProposal ==
    (op.name = "__next__" /\ op.err = "") =>
        /\ op.nc = Len(op.evaluated)
        /\ op.nc \in {0, 1}
        /\ op.ret # NoReturn =>
              /\ strictly_inside(op.ret.u)
              /\ region_inside(op.region, op.ret.u)
              /\ op.evaluated = <<op.ret.u>>
              /\ op.ret.L = loglike(op.ret.u)
              /\ op.ret.L >= op.Lmin
              /\ op.ret.p = transform(op.ret.u)
              /\ \E k \in 1 .. Len(op.unew) : op.unew[k] = op.ret.u

\* the first proposal lay on a face of the cube, at a likelihood above Lmin,
\* and the sample returned is the second one
C27_ReturnedSecondProposal ==
    /\ op.name = "__next__"
    /\ op.ret # NoReturn
    /\ Len(op.unew) = 2
    /\ ~strictly_inside(op.unew[1])
    /\ region_inside(op.region, op.unew[1])
    /\ loglike(op.unew[1]) >= op.Lmin
    /\ op.ret.u = op.unew[2]

\* C28: __next__ returns a sample only after nsteps accepted steps were made
\* since the starting point was chosen among the live points; the starting
\* point and the history entries of before the restart are not counted.
C28_SampleAfterNstepsAccepted ==
    (op.name = "__next__" /\ op.ret # NoReturn) => op.made >= stepsampler.nsteps

\* C29: every sample SamplingPathStepSampler.__next__ returns is at or above
\* the Lmin of that call and inside the region of that call, also after the
\* last point was invalidated and the sampler resumed from its history.
C29_PathSampleValid ==
    (op.name = "__next__" /\ op.ret # NoReturn) =>
        /\ op.ret.L >= op.Lmin
        /\ region_inside(op.region, op.ret.u)

\* C30: counting the calls of __next__ since the sampler last (re)started, a
\* new direction is selected after every nresets calls and a sample is
\* returned at the call that makes nsteps steps in total.
C30_DirectionEveryNresetsSampleAfterNsteps ==
    (op.name = "__next__" /\ op.err = "") =>
        /\ op.started <=> ((op.calls - 1) % op.before.nresets = 0)
        /\ (op.ret # NoReturn) <=> (op.calls = op.before.nsteps)

\* C31: DESampler.move draws two live point indices j and k that differ from
\* each other and from the index starti of the starting point, whatever the
\* number n >= 3 of live points, starti and the two random draws.
C31_IndicesDistinct ==
    op.name = "move" =>
        /\ op.j \in 0 .. (op.n - 1)
        /\ op.k \in 0 .. (op.n - 1)
        /\ op.j # op.k
        /\ op.j # stepsampler.starti
        /\ op.k # stepsampler.starti

\* the calls of add_if_above_threshold of the last operation that tried a
\* point reflected at the contour
ReflectedRetries ==
    IF op.name \in {"expand_onestep", "step_expand"}
    THEN {k \in 2 .. Len(evals) : evals[k - 1].i = evals[k].i}
    ELSE {reflects[n].at : n \in 1 .. Len(reflects)}

\* C32: a point obtained by contour reflection and retry is recorded at an
\* index whose neighbour toward the start was recorded before it, and a
\* reflection whose retry was rejected lies beyond the recorded indices: no
\* contour reflection lies between two neighbouring recorded indices.
C32_ReflectionNextToRecordedIndex ==
    \A k \in ReflectedRetries :
        LET i == evals[k].i
            nb == IF i > 0 THEN i - 1 ELSE i + 1
        IN IF evals[k].accepted
           THEN \E n \in 1 .. Len(points) : \E m \in 1 .. (n - 1) :
                   /\ points[n] = <<i, evals[k].x, evals[k].v, evals[k].L>>
                   /\ points[m][1] = nb
           ELSE /\ i \notin PathIndices(points)
                /\ nb \in PathIndices(points)
                /\ \A n \in 1 .. Len(points) :
                      IF i > 0 THEN points[n][1] < i ELSE points[n][1] > i

\* a bisection found the contour two or more steps from the frontier and the
\* reflected point was recorded there
C32_ReflectedAfterBisection ==
    /\ op.name = "nuts_step"
    /\ \E n \in 1 .. Len(reflects) :
          /\ reflects[n].accepted
          /\ Abs(reflects[n].i) >= 3
          /\ \E b \in 1 .. Len(bisects) : Abs(bisects[b].outsidei) >= 2

\* the range and the outer end point of a full tree of depth op.j built from
\* the state of index tree_start
FullRange ==
    IF op.fwd THEN <<tree_start + 1, tree_start + Pow2(op.j)>>
    ELSE <<tree_start - Pow2(op.j), tree_start - 1>>
OuterIndex == IF op.fwd THEN op.tree.right[1] ELSE op.tree.left[1]

\* C33 as stated: a tree whose first subtree did not stop spans 2^d indices
\* from the start state outward and ends at index s + 2^d or s - 2^d, and
\* while nuts_step has seen no stop its valid range is the range between its
\* two end states and holds 2^j indices after j iterations.
C33_FirstSubtreeUnstoppedGivesFullRange ==
    /\ (Built /\ op.tree.err = "") =>
          \A a \in {IF op.j > 0 THEN first_subtree ELSE op.tree} :
              (op.j = 0 \/ ~a.stop) =>
                  /\ op.tree.range = FullRange
                  /\ OuterIndex = (IF op.fwd THEN FullRange[2] ELSE FullRange[1])
    /\ (pc = "loop" /\ ~nuts.stop) =>
          /\ nuts.validrange = <<nuts.left_state[1], nuts.right_state[1]>>
          /\ nuts.validrange[2] - nuts.validrange[1] + 1 = Pow2(nuts.j)

\* C33, amended: a tree in which no subtree at any depth was cut short (it
\* looked up all 2^d indices) spans 2^d indices from the start state outward
\* and ends at index s + 2^d or s - 2^d; while nuts_step has seen no stop its
\* valid range is the range between its two end states and holds 2^j indices
\* after j iterations.
C33_CompleteTreeGivesFullRange ==
    /\ (Built /\ op.tree.err = "" /\ Len(op.tree.lookups) = Pow2(op.j)) =>
          /\ op.tree.range = FullRange
          /\ OuterIndex = (IF op.fwd THEN FullRange[2] ELSE FullRange[1])
    /\ (pc = "loop" /\ ~nuts.stop) =>
          /\ nuts.validrange = <<nuts.left_state[1], nuts.right_state[1]>>
          /\ nuts.validrange[2] - nuts.validrange[1] + 1 = Pow2(nuts.j)

\* a backward tree of depth 2 was built in full and nuts_step goes on with a
\* valid range of 8 indices
C33_CompleteTreeWidensRange ==
    /\ Built
    /\ ~op.fwd
    /\ op.j = 2
    /\ op.tree.err = ""
    /\ Len(op.tree.lookups) = 4
    /\ op.tree.range = FullRange
    /\ pc = "loop"
    /\ ~nuts.stop
    /\ nuts.validrange[2] - nuts.validrange[1] + 1 = 8

\* the index i can be looked up on the path: it lies within the recorded
\* range, or beyond a side that is closed (interpolate then returns the end
\* point of that side)
Available(i) ==
    \/ (i >= frontier(FALSE) /\ i <= frontier(TRUE))
    \/ (i > frontier(TRUE) /\ ~fwd_possible)
    \/ (i < frontier(FALSE) /\ ~rwd_possible)

\* C34: during nuts_step no path lookup fails: every index build_tree or
\* sample_chain_point passes to interpolate is within the recorded range or
\* beyond a closed side, and "can not extrapolate outside path" (KeyError)
\* is never raised
C34_NoLookupOutsidePath ==
    /\ op.name = "nuts_step" =>
          /\ op.ret # "KeyError"
          /\ \A n \in 1 .. Len(op.tree.lookups) : Available(op.tree.lookups[n])
    /\ op.name = "sample_chain_point" =>
          /\ op.ret # "KeyError"
          /\ Available(op.i)

\* a tree was built whose lookups went beyond the closed forward side
C34_LookupBeyondClosedSide ==
    /\ op.name = "nuts_step"
    /\ op.ret = ""
    /\ ~fwd_possible
    /\ \E n \in 1 .. Len(op.tree.lookups) : op.tree.lookups[n] > frontier(TRUE)

\* the tree just built looked up an index beyond the recorded range
BeyondPath ==
    \E n \in 1 .. Len(op.tree.lookups) :
        \/ op.tree.lookups[n] > frontier(TRUE)
        \/ op.tree.lookups[n] < frontier(FALSE)

\* C35: validrange never extends more than one index beyond the range of
\* recorded indices on either side: a sub-tree of depth >= 1 whose range
\* includes an index beyond the path signals stop and is not added
C35_ValidrangeWithinOneOfPath ==
    /\ pc \in {"loop", "sample", "done"} =>
          /\ nuts.validrange[1] >= frontier(FALSE) - 1
          /\ nuts.validrange[2] <= frontier(TRUE) + 1
    /\ (Built /\ op.j >= 1 /\ op.tree.err = "" /\ BeyondPath) =>
          /\ op.tree.stop
          /\ IF op.fwd THEN nuts.validrange[2] < op.tree.range[2]
                       ELSE nuts.validrange[1] > op.tree.range[1]

\* a tree of depth >= 2 was built in full, ran beyond the closed end of the
\* path and signalled stop
C35_TreeBeyondPathStopped ==
    /\ Built
    /\ op.j >= 2
    /\ op.tree.err = ""
    /\ BeyondPath
    /\ op.tree.stop
    /\ Len(op.tree.lookups) = Pow2(op.j)

\* C36: for every origin in the cube, direction (a vector with a component
\* that is not zero, GeomDirs) and step count t (positive,
\* zero or negative) linear_steps_with_reflection returns a position in the
\* cube and a direction whose components have the magnitudes of the input's;
\* t = 0 returns origin and direction unchanged
C36_StepStaysInCubeKeepsMagnitudes ==
    op.name = "linear_steps_with_reflection" =>
        /\ \A a \in Axes : op.ret.x[a] >= 0 /\ op.ret.x[a] <= One
        /\ \A a \in Axes : Abs(op.ret.v[a]) = Abs(op.v[a])
        /\ op.t = 0 => (op.ret.x = op.x /\ op.ret.v = op.v)

\* a replay of a negative number of steps was reflected on both axes: both
\* components of the direction changed sign
C36_ReplayBackReflectedOnBothAxes ==
    /\ op.name = "linear_steps_with_reflection"
    /\ op.t < 0
    /\ op.v[1] # 0
    /\ op.v[2] # 0
    /\ op.ret.v = Neg(op.v)
    /\ op.ret.x # op.x

-----------------------------------------------------------------------------
(* The pre-exploration of nuts_step on its own: one call of                 *)
(* BisectSampler.expand_to_step with continue_after_reflection = False,     *)
(* from every start and direction of the grid.                              *)

\* a start strictly inside the cube, anywhere on the grid
PreExploreStarts == {x \in GridPos : \A a \in Axes : x[a] > 0 /\ x[a] < One}

\* a fresh path from any start in any direction
PreExploreInit ==
    /\ \E x0 \in PreExploreStarts, v0 \in Dirs :
          /\ points = add(<<>>, 0, x0, v0, Lmin)
          /\ like = {<<x0, Lmin>>}
    /\ fwd_possible = TRUE
    /\ rwd_possible = TRUE
    /\ ncalls = 0
    /\ nreflections = 0
    /\ self_fwd_possible = TRUE
    /\ self_rwd_possible = TRUE
    /\ region \in Regions
    /\ op = [name |-> "init", i |-> 0, fwd |-> TRUE, cont |-> TRUE, was_fwd |-> TRUE,
             was_rwd |-> TRUE, ret |-> "None"]
    /\ evals = <<>>
    /\ bisects = <<>>
    /\ reflects = <<>>
    /\ pc = "idle"
    /\ nuts = [left_state |-> state0, right_state |-> state0, j |-> 0,
               validrange |-> <<0, 0>>, stop |-> FALSE]
    /\ sample = NoSample
    /\ stepsampler = NoStepSampler

\* expand_to_step(-10, continue_after_reflection=False) or
\* expand_to_step(+10, continue_after_reflection=False) on the fresh path
PreExploreExpand ==
    /\ op.name = "init"
    /\ \E i \in {-PreExplore, PreExplore} :
       \E o \in BisectSampler_expand_to_step(World, i, FALSE) :
          /\ Commit(o.w)
          /\ op' = [name |-> "bisect_expand", i |-> i, fwd |-> i > 0, cont |-> FALSE,
                    was_fwd |-> fwd_possible, was_rwd |-> rwd_possible, ret |-> o.ret]
    /\ UNCHANGED <<pc, nuts, sample>>

SpecPreExplore == PreExploreInit /\ [][PreExploreExpand]_vars

\* C37: with continue_after_reflection = False, expand_to_step does not expand
\* past a contour reflection whose reflected direction has a non-positive dot
\* product with the direction before it, be it the first reflection of the
\* call or a later one: nothing is tried after that reflected retry
C37_StopsAtEveryTurningReflection ==
    (op.name \in {"bisect_expand", "nuts_step"} /\ op.cont = FALSE) =>
        \A n \in 1 .. Len(reflects) :
            (reflects[n].accepted /\ reflects[n].dot <= 0) =>
                /\ n = Len(reflects)
                /\ reflects[n].at = Len(evals)

-----------------------------------------------------------------------------
(* CubeSliceSampler (stepsampler.py): StepSampler.__next__ with the reset,  *)
(* adjust_accept, adjust_outside_region and move of the slice sampler.      *)
(* The interval bounds left, right, the draw u and the scale are whole      *)
(* numbers of 1/One; the draws of np.random.uniform are taken from the even *)
(* numbers strictly between left and right.                                 *)

\* calls of __next__ followed on one slice sampler
MaxSliceDraws == 4

\* self.interval = None
NoInterval == [v |-> <<0, 0>>, left |-> 0, right |-> 0, u |-> 0]

\* generate_cube_oriented_direction: the unit vector of a random axis
SliceDirections == {<<1, 0>>, <<0, 1>>}

CubeSliceSampler_reset(self) ==
    [self EXCEPT !.interval = NoInterval, !.found_left = FALSE,
                 !.found_right = FALSE, !.axis_index = 0]

\* StepSampler.__init__(self, nsteps=nsteps); self.reset()
CubeSliceSampler_init(nsteps) ==
    CubeSliceSampler_reset(
        [nsteps |-> nsteps, history |-> <<>>, last |-> NoLast, nrejects |-> 0,
         scale |-> One, interval |-> NoInterval, found_left |-> FALSE,
         found_right |-> FALSE, axis_index |-> 0])

\* self.scale *= 1.1 and self.scale /= 1.1, to the next whole number
scale_up(scale) == (scale * 11 + 9) \div 10
scale_down(scale) == (scale * 10) \div 11

\* the interval shrunk to the rejected draw u
shrunk(iv, u) ==
    [iv EXCEPT !.u = u,
               !.left = IF u < 0 THEN u ELSE @,
               !.right = IF u > 0 THEN u ELSE @]

CubeSliceSampler_adjust_accept(self, accepted, unew, Lnew) ==
    IF ~self.found_left
    THEN IF accepted THEN [self EXCEPT !.interval.left = 2 * @]
         ELSE [self EXCEPT !.found_left = TRUE]
    ELSE IF ~self.found_right
    THEN IF accepted THEN [self EXCEPT !.interval.right = 2 * @]
         ELSE [self EXCEPT !.found_right = TRUE,
                           !.scale = IF -self.interval.left > @
                                        \/ self.interval.right > @
                                     THEN scale_up(@) ELSE scale_down(@)]
    ELSE IF accepted
    THEN [self EXCEPT !.interval = NoInterval,
                      !.last = [u |-> unew, L |-> Lnew],
                      !.history = Append(@, [u |-> unew, L |-> Lnew])]
    ELSE [self EXCEPT !.nrejects = @ + 1,
                      !.interval = shrunk(@, @.u)]

\* self.adjust_accept(False, unew=None, pnew=None, Lnew=None, nc=0)
CubeSliceSampler_adjust_outside_region(self) ==
    CubeSliceSampler_adjust_accept(self, FALSE, <<>>, NoneL)

\* ui + v * t
slice_point(ui, v, t) == [a \in Axes |-> ui[a] + v[a] * t]

\* np.random.uniform(left, right)
UniformDraws(left, right) == {u \in (left + 1) .. (right - 1) : u % 2 = 0}

\* move() once both probes were passed: u = np.random.uniform(left, right)
\* until ui + v * u is inside the region
RECURSIVE move_draw(_, _, _)
move_draw(self, ui, r) ==
    UNION { IF region_inside(r, slice_point(ui, self.interval.v, u))
            THEN {[self |-> [self EXCEPT !.interval.u = u],
                   unew |-> slice_point(ui, self.interval.v, u), drawn |-> TRUE]}
            ELSE move_draw([self EXCEPT !.interval = [shrunk(@, u) EXCEPT
                                         !.right = IF u = 0 THEN 0 ELSE @]],
                           ui, r)
            : u \in UniformDraws(self.interval.left, self.interval.right) }

\* move() from the probe of the right end on
move_right(self, ui, r) ==
    IF ~self.found_right
       /\ region_inside(r, slice_point(ui, self.interval.v, self.interval.right))
    THEN {[self |-> [self EXCEPT !.interval.right = 2 * @],
           unew |-> slice_point(ui, self.interval.v, self.interval.right),
           drawn |-> FALSE]}
    ELSE move_draw([self EXCEPT !.found_right = TRUE], ui, r)

\* the while loop of move(), self.interval set
move_loop(self, ui, r) ==
    IF ~self.found_left
       /\ region_inside(r, slice_point(ui, self.interval.v, self.interval.left))
    THEN {[self |-> self,
           unew |-> slice_point(ui, self.interval.v, self.interval.left),
           drawn |-> FALSE]}
    ELSE move_right([self EXCEPT !.found_left = TRUE], ui, r)

\* move(ui, region): a new slice when self.interval is None
CubeSliceSampler_move(self, ui, r) ==
    IF self.interval = NoInterval
    THEN UNION { move_loop([self EXCEPT !.interval =
                               [v |-> v, left |-> -self.scale,
                                right |-> self.scale, u |-> 0]], ui, r)
                 : v \in SliceDirections }
    ELSE move_loop(self, ui, r)

\* __next__ from the return of move() on; at_move is the sampler move() was
\* entered with, m what move() returned
slice_after_move(at_move, s, r, L, m) ==
    LET u == m.unew
        Lnew == loglike(u)
        accepted == CubeSliceSampler_adjust_accept(m.self, TRUE, u, Lnew)
        base == [at_move |-> at_move, new_slice |-> at_move.interval = NoInterval,
                 drawn |-> m.drawn, unew |-> u, start |-> s, err |-> ""]
    IN IF ~(strictly_inside(u) /\ region_inside(r, u))
       THEN [base EXCEPT !.unew = u] @@
            [self |-> CubeSliceSampler_adjust_outside_region(m.self), nc |-> 0,
             accepted |-> FALSE, ret |-> NoReturn]
       ELSE IF Lnew >= L
       THEN IF Len(accepted.history) >= at_move.nsteps
            THEN base @@
                 [self |-> [accepted EXCEPT !.history = <<>>, !.last = NoLast],
                  nc |-> 1, accepted |-> TRUE,
                  ret |-> [u |-> u, p |-> transform(u), L |-> Lnew]]
            ELSE base @@
                 [self |-> accepted, nc |-> 1, accepted |-> TRUE, ret |-> NoReturn]
       ELSE base @@
            [self |-> CubeSliceSampler_adjust_accept(m.self, FALSE, u, Lnew),
             nc |-> 1, accepted |-> FALSE, ret |-> NoReturn]

\* __next__ with the starting point s of the sampler at_move
slice_moved(at_move, s, r, L) ==
    { slice_after_move(at_move, s, r, L, m)
      : m \in CubeSliceSampler_move(at_move, s.p.u, r) }

\* the assertions of the fresh start failed
slice_start_failed(self) ==
    [at_move |-> self, new_slice |-> FALSE, drawn |-> FALSE, unew |-> <<>>,
     start |-> [p |-> NoLast, from |-> "none"], err |-> "AssertionError",
     self |-> self, nc |-> 0, accepted |-> FALSE, ret |-> NoReturn]

\* a fresh start at the live point ui: self.reset(), then the history entry
slice_fresh_start(self, ui, r, L) ==
    IF ~strictly_inside(ui) THEN {slice_start_failed(self)}
    ELSE slice_moved([CubeSliceSampler_reset(self) EXCEPT
                         !.history = Append(@, [u |-> ui, L |-> loglike(ui)])],
                     [p |-> [u |-> ui, L |-> loglike(ui)], from |-> "live"], r, L)

CubeSliceSampler_next_of(self, s, r, L, us) ==
    IF s.p.L # NoneL THEN slice_moved(self, s, r, L)
    ELSE IF {u \in us : region_inside(r, u)} = {}
    THEN {slice_start_failed(self)}
    ELSE UNION { slice_fresh_start(self, ui, r, L)
                 : ui \in {u \in us : region_inside(r, u)} }

\* StepSampler.__next__ on a CubeSliceSampler
CubeSliceSampler_next(self, r, L, us) ==
    CubeSliceSampler_next_of(self, starting_point(self, r, L), r, L, us)

NoSliceCall == [name |-> "init", n |-> 0, Lmin |-> Lmin, region |-> "all",
                slices |-> 0]

\* CubeSliceSampler(nsteps)
SliceConstruct ==
    /\ op.name = "init"
    /\ stepsampler = NoStepSampler
    /\ \E nsteps \in 1 .. MaxNsteps : stepsampler' = CubeSliceSampler_init(nsteps)
    /\ op' = NoSliceCall
    /\ UNCHANGED <<points, fwd_possible, rwd_possible, ncalls, nreflections,
                   self_fwd_possible, self_rwd_possible, like, region, evals,
                   bisects, reflects, pc, nuts, sample>>

\* one call of __next__; slices counts the slices begun so far
SliceDraw ==
    /\ op.name \in {"init", "__next__"}
    /\ stepsampler # NoStepSampler
    /\ op.n < MaxSliceDraws
    /\ \E L \in {t \in Thresholds : t >= op.Lmin}, r \in StepRegions :
          \E o \in CubeSliceSampler_next(stepsampler, r, L, LivePoints(L)) :
             /\ stepsampler' = o.self
             /\ op' = [name |-> "__next__", n |-> op.n + 1, Lmin |-> L,
                       region |-> r, at_move |-> o.at_move,
                       new_slice |-> o.new_slice, drawn |-> o.drawn,
                       unew |-> o.unew, start |-> o.start, err |-> o.err,
                       nc |-> o.nc, accepted |-> o.accepted, ret |-> o.ret,
                       slices |-> op.slices + (IF o.new_slice THEN 1 ELSE 0)]
    /\ UNCHANGED <<points, fwd_possible, rwd_possible, ncalls, nreflections,
                   self_fwd_possible, self_rwd_possible, like, region, evals,
                   bisects, reflects, pc, nuts, sample>>

SliceNext ==
    \/ SliceConstruct
    \/ SliceDraw

SpecSlice == StepInit /\ [][SliceNext]_vars

\* C38: a call of move() that finds interval = None and draws a new direction
\* starts in the stepping-out phase, found_left = found_right = false, so
\* that no shrinking draw is made before a probe on each side was rejected
C38_NewSliceStartsSteppingOut ==
    (op.name = "__next__" /\ op.new_slice) =>
        /\ ~op.at_move.found_left
        /\ ~op.at_move.found_right

\* the points the likelihood evaluations of the last operation put on the path
Accepted(log) ==
    {<<log[n].i, log[n].x, log[n].v, log[n].L>> : n \in {m \in 1 .. Len(log) : log[m].accepted}}

\* the last operation closed the side fwd: a reflected retry was rejected
Closed(log, fwd) == \E n \in 1 .. Len(log) : log[n].fwd = fwd /\ ~log[n].accepted

\* C39: interpolate, build_tree and sample_chain_point are read-only: a draw
\* of sample_chain_point leaves the recorded points, both open flags and the
\* likelihood call counter unchanged, and a nuts_step iteration changes them
\* by what its expand_to_step did and no more: a call counted for each of its
\* evaluations, the points it accepted, the side its rejected retry closed
C39_LookupsAreReadOnly ==
    [][ /\ op'.name = "sample_chain_point" =>
              UNCHANGED <<points, fwd_possible, rwd_possible, ncalls>>
        /\ op'.name = "nuts_step" =>
              /\ ncalls' = ncalls + Len(evals')
              /\ {points'[n] : n \in 1 .. Len(points')}
                    = {points[n] : n \in 1 .. Len(points)} \cup Accepted(evals')
              /\ fwd_possible' = (fwd_possible /\ ~Closed(reflects', TRUE))
              /\ rwd_possible' = (rwd_possible /\ ~Closed(reflects', FALSE)) ]_vars

\* a tree of four nodes was built on points known before the iteration: its
\* expand_to_step evaluated nothing
C39_TreeBuiltWithoutEvaluation ==
    /\ Built
    /\ op.tree.err = ""
    /\ Len(op.tree.lookups) = 4
    /\ evals = <<>>
    /\ \E n \in 1 .. 4 : \A m \in 1 .. Len(points) : points[m][1] # op.tree.lookups[n]

====
